---- MODULE Spec2Model ----
(***************************************************************************)
(* Model of the DevOps AI engine (src/core/devops_ai_engine.py): the       *)
(* retrieval pipeline of main() and the chunked LLM relevance scorer       *)
(* query_llm_model / parse_llm_response / create_solution_entry.           *)
(*                                                                         *)
(* Texts are sequences of one-character strings.  Floats are integers in   *)
(* hundredths (0.6 is 60), with the IEEE special NaN, for which every       *)
(* ordered comparison is false.                                            *)
(***************************************************************************)
EXTENDS Integers, Sequences, FiniteSets, TLC

\* ------------------------------------------------------------------ bounds
\* longest candidate list handed to query_llm_model in a direct call
MaxDocs == 2
\* largest chunk_size argument of a direct call
MaxChunk == 2
\* most lines of LLM text parsed during one call of query_llm_model
MaxLines == 2
\* most rows in the devops_issues table
MaxRows == 1

\* ------------------------------------------------------- program constants
\* create_solution_entry: "if confidence <= 0.6"
Threshold == 60
\* query_llm_model(..., chunk_size=10)
DefaultChunkSize == 10
\* query_faiss_index: k = 5
K == 5
\* confidence of the fallback line "0 0.8 Fallback selection ..."
FallbackConfidence == 80

\* ------------------------------------------------------------------ floats
\* float('nan'): unordered with respect to every float
NaN == 0 - 1
FloatLE(a, b) == a # NaN /\ b # NaN /\ a <= b
FloatLT(a, b) == a # NaN /\ b # NaN /\ a < b
FloatGT(a, b) == a # NaN /\ b # NaN /\ a > b

\* ------------------------------------------------------------------- texts
Range(q) == {q[i] : i \in 1..Len(q)}

UpperChars == <<"A", "B", "C", "D", "E", "F", "G", "H", "I", "J", "K", "L", "M", "N", "O", "P", "Q", "R",
      "S", "T", "U", "V", "W", "X", "Y", "Z">>
LowerChars == <<"a", "b", "c", "d", "e", "f", "g", "h", "i", "j", "k", "l", "m", "n", "o", "p", "q", "r",
      "s", "t", "u", "v", "w", "x", "y", "z">>
Letters == Range(UpperChars) \cup Range(LowerChars)
Digits == {"0", "1", "2", "3", "4", "5", "6", "7", "8", "9"}
\* regex \w
IsWord(c) == c \in Letters \/ c \in Digits \/ c = "_"
\* regex \s
IsSpace(c) == c \in {" ", "\n", "\t", "\r"}
\* regex \d
IsDigitChar(c) == c \in Digits

\* str.lower() on one character and on a text
Lower(c) ==
    IF c \in Range(UpperChars)
    THEN LowerChars[CHOOSE i \in 1..Len(UpperChars) : UpperChars[i] = c]
    ELSE c
LowerText(s) == [i \in 1..Len(s) |-> Lower(s[i])]

\* text p occurs in s at index i
StartsAt(s, i, p) ==
    /\ i >= 1
    /\ i + Len(p) - 1 <= Len(s)
    /\ \A k \in 1..Len(p) : s[i + k - 1] = p[k]
\* "p in s"
Contains(s, p) == \E i \in 1..(Len(s) + 1) : StartsAt(s, i, p)
\* s.endswith(p)
EndsWith(s, p) == StartsAt(s, Len(s) - Len(p) + 1, p)

RECURSIVE StripStars(_)
\* re.sub(r'\*', '', text)
StripStars(s) ==
    IF s = <<>> THEN <<>>
    ELSE IF Head(s) = "*" THEN StripStars(Tail(s))
    ELSE <<Head(s)>> \o StripStars(Tail(s))

RECURSIVE ReplaceNewlines(_)
\* text.replace('\n', ', ')
ReplaceNewlines(s) ==
    IF s = <<>> THEN <<>>
    ELSE IF Head(s) = "\n" THEN <<",", " ">> \o ReplaceNewlines(Tail(s))
    ELSE <<Head(s)>> \o ReplaceNewlines(Tail(s))

RECURSIVE DigitRunEnd(_, _)
\* last index of the run of digits that starts at i (s[i] is a digit)
DigitRunEnd(s, i) ==
    IF i + 1 <= Len(s) /\ IsDigitChar(s[i + 1]) THEN DigitRunEnd(s, i + 1) ELSE i

\* does \b\d+\.(?=\w) match at index i of s
MarkerAt(s, i) ==
    /\ IsDigitChar(s[i])
    /\ (i = 1 \/ ~IsWord(s[i - 1]))
    /\ LET q == DigitRunEnd(s, i)
       IN  /\ q + 2 <= Len(s)
           /\ s[q + 1] = "."
           /\ IsWord(s[q + 2])

RECURSIVE StripMarkers(_, _)
\* re.sub(r'\b\d+\.(?=\w)', '', text), scanning from index i
StripMarkers(s, i) ==
    IF i > Len(s) THEN <<>>
    ELSE IF MarkerAt(s, i) THEN StripMarkers(s, DigitRunEnd(s, i) + 2)
    ELSE <<s[i]>> \o StripMarkers(s, i + 1)

RECURSIVE StripPunct(_)
\* re.sub(r'[^\w\s]', '', text)
StripPunct(s) ==
    IF s = <<>> THEN <<>>
    ELSE IF IsWord(Head(s)) \/ IsSpace(Head(s))
         THEN <<Head(s)>> \o StripPunct(Tail(s))
         ELSE StripPunct(Tail(s))

\* clean_text(text) for a text that is not None
clean_text(text) ==
    StripPunct(StripMarkers(ReplaceNewlines(StripStars(text)), 1))

\* ---------------------------------------------------------- knowledge base
DigitOf(i) == CASE i = 0 -> "0" [] i = 1 -> "1" [] i = 2 -> "2" [] i = 3 -> "3"
                [] i = 4 -> "4" [] i = 5 -> "5" [] i = 6 -> "6" [] OTHER -> "7"

\* the 8 built-in entries; each text is cut down to a marker letter and the
\* entry's number, the solution keeping its "1. " list marker
create_devops_knowledge_base ==
    [i \in 1..8 |->
        [failure    |-> <<"F", DigitOf(i - 1)>>,
         root_cause |-> <<"R", DigitOf(i - 1)>>,
         solution   |-> <<"1", ".", " ", "S", DigitOf(i - 1)>>]]

\* rows as (doc_id, failure, root_cause, solution) tuples, doc_id = position
AsTuples(issues) ==
    [i \in 1..Len(issues) |->
        <<i - 1, issues[i].failure, issues[i].root_cause, issues[i].solution>>]

\* the f"failure: ..., root_cause: ..., solution: ..." text of one row
DocText(row) == <<clean_text(row[2]), clean_text(row[3]), clean_text(row[4])>>

\* ------------------------------------------------------ pipeline log fetch
Https == <<"h", "t", "t", "p", "s", ":", "/", "/">>

RECURSIVE NonSpaceRunEnd(_, _)
\* last index of the run of [^\s] characters that starts at i; i - 1 when empty
NonSpaceRunEnd(s, i) ==
    IF i <= Len(s) /\ ~IsSpace(s[i]) THEN NonSpaceRunEnd(s, i + 1) ELSE i - 1

\* the text [^\s]* can cover behind an "https://" found at i
RunAfter(s, i) == SubSeq(s, i + Len(Https), NonSpaceRunEnd(s, i + Len(Https)))

\* pipeline_patterns[n] matches at index i of s (re.IGNORECASE)
PatternAt(n, s, i) ==
    LET run == LowerText(RunAfter(s, i))
    IN  /\ StartsAt(LowerText(s), i, Https)
        /\ CASE n = 1 -> Contains(run, <<"j", "e", "n", "k", "i", "n", "s">>)
             [] n = 2 -> \E j \in 1..Len(run) :
                             /\ StartsAt(run, j, <<"g", "i", "t", "l", "a", "b">>)
                             /\ Contains(SubSeq(run, j + 6, Len(run)), <<"/", "p", "i", "p", "e", "l", "i", "n", "e", "s", "/">>)
             [] n = 3 -> Contains(run, <<"/", "j", "o", "b", "/">>)
             [] n = 4 -> Contains(run, <<"/", "b", "u", "i", "l", "d", "/">>)
             [] OTHER -> Contains(run, <<"/", "c", "o", "n", "s", "o", "l", "e">>)

\* re.findall(pipeline_patterns[n], s) is not empty
PatternMatches(n, s) == \E i \in 1..Len(s) : PatternAt(n, s, i)

\* matches[0]: the leftmost match, which runs to the end of the [^\s] run
FirstMatch(n, s) ==
    LET i == CHOOSE k \in 1..Len(s) :
                 PatternAt(n, s, k) /\ \A m \in 1..(k - 1) : ~PatternAt(n, s, m)
    IN  SubSeq(s, i, NonSpaceRunEnd(s, i + Len(Https)))

\* r'(https://[^\s]+)' matches at index i of s
GenericAt(s, i) == StartsAt(s, i, Https) /\ NonSpaceRunEnd(s, i + Len(Https)) >= i + Len(Https)

\* generic_urls[0]
FirstGeneric(s) ==
    LET i == CHOOSE k \in 1..Len(s) : GenericAt(s, k) /\ \A m \in 1..(k - 1) : ~GenericAt(s, m)
    IN  SubSeq(s, i, NonSpaceRunEnd(s, i + Len(Https)))

pipeline_keywords ==
    {<<"j", "e", "n", "k", "i", "n", "s">>, <<"g", "i", "t", "l", "a", "b">>, <<"b", "u", "i", "l", "d">>, <<"p", "i", "p", "e", "l", "i", "n", "e">>, <<"j", "o", "b">>, <<"c", "o", "n", "s", "o", "l", "e">>}

\* the URL detection of detect_and_process_pipeline_query:
\* is_pipeline_query and extracted_url
DetectUrl(input) ==
    IF \E n \in 1..5 : PatternMatches(n, input)
    THEN LET n == CHOOSE k \in 1..5 :
                      PatternMatches(k, input) /\ \A m \in 1..(k - 1) : ~PatternMatches(m, input)
         IN  [is_pipeline_query |-> TRUE, extracted_url |-> FirstMatch(n, input)]
    ELSE IF /\ \E i \in 1..Len(input) : GenericAt(input, i)
            /\ \E kw \in pipeline_keywords : Contains(LowerText(FirstGeneric(input)), kw)
         THEN [is_pipeline_query |-> TRUE, extracted_url |-> FirstGeneric(input)]
         ELSE [is_pipeline_query |-> FALSE, extracted_url |-> <<>>]

ConsoleText == <<"c", "o", "n", "s", "o", "l", "e", "T", "e", "x", "t">>

\* console_url: '/consoleText' appended unless the URL ends with it
ConsoleUrl(url) ==
    IF EndsWith(url, <<"/">> \o ConsoleText) THEN url
    ELSE IF EndsWith(url, <<"/">>) THEN url \o ConsoleText
    ELSE url \o <<"/">> \o ConsoleText

error_keywords ==
    {<<"e", "r", "r", "o", "r">>, <<"f", "a", "i", "l", "e", "d">>, <<"e", "x", "c", "e", "p", "t", "i", "o", "n">>, <<"t", "r", "a", "c", "e", "b", "a", "c", "k">>, <<"b", "u", "i", "l", "d", " ", "f", "a", "i", "l", "e", "d">>,
     <<"t", "i", "m", "e", "o", "u", "t">>, <<"a", "b", "o", "r", "t">>, <<"c", "r", "a", "s", "h">>, <<"f", "a", "t", "a", "l">>, <<"c", "r", "i", "t", "i", "c", "a", "l">>}

\* text.split('\n'): the pieces between the newlines
SplitLines(s) ==
    LET nl == SelectSeq([i \in 1..Len(s) |-> i], LAMBDA i : s[i] = "\n")
    IN  [k \in 1..(Len(nl) + 1) |->
            SubSeq(s, IF k = 1 THEN 1 ELSE nl[k - 1] + 1,
                      IF k > Len(nl) THEN Len(s) ELSE nl[k] - 1)]

RECURSIVE JoinLines(_)
\* '\n'.join(lines), joining the two halves of the list
JoinLines(ls) ==
    IF ls = <<>> THEN <<>>
    ELSE IF Len(ls) = 1 THEN ls[1]
    ELSE LET h == Len(ls) \div 2
         IN  JoinLines(SubSeq(ls, 1, h)) \o <<"\n">> \o JoinLines(SubSeq(ls, h + 1, Len(ls)))

RECURSIVE LStrip(_)
LStrip(s) == IF s # <<>> /\ IsSpace(Head(s)) THEN LStrip(Tail(s)) ELSE s
RECURSIVE RStrip(_)
RStrip(s) == IF s # <<>> /\ IsSpace(s[Len(s)]) THEN RStrip(SubSeq(s, 1, Len(s) - 1)) ELSE s
\* str.strip()
Strip(s) == RStrip(LStrip(s))

\* the lines kept of a console log: stripped, those holding an error keyword
ErrorLogs(console_logs) ==
    LET ls == SplitLines(console_logs)
        kept == SelectSeq(ls, LAMBDA l : \E kw \in error_keywords : Contains(LowerText(l), kw))
    IN  [i \in 1..Len(kept) |-> Strip(kept[i])]

KeepLast == 100
\* variant of LastLines: error_logs[:100], the first hundred
LastLines_first(ls) == IF Len(ls) > KeepLast THEN SubSeq(ls, 1, KeepLast) ELSE ls
\* error_logs[-100:]
LastLines(ls) == IF Len(ls) > KeepLast THEN SubSeq(ls, Len(ls) - KeepLast + 1, Len(ls)) ELSE ls

\* the 'status_<code>' marker
StatusMarker(code) ==
    CASE code = 403 -> "status_403" [] code = 404 -> "status_404"
      [] code = 500 -> "status_500" [] OTHER -> "status_503"

\* str(e) of a connection failure
ConnectionErrorText == <<"C", "o", "n", "n", "e", "c", "t", "i", "o", "n", " ", "r", "e", "f", "u", "s", "e", "d">>

\* what detect_and_process_pipeline_query returns for a detected URL and an
\* outcome of requests.get: the (marker, text) pair
FetchResult(url, http) ==
    CASE http.kind = "timeout" ->
            [resp |-> "timeout", query |-> <<"P", "i", "p", "e", "l", "i", "n", "e", " ", "A", "P", "I", " ", "t", "i", "m", "e", "o",
      "u", "t", " ", "f", "o", "r", " ">> \o url]
      [] http.kind = "connection" ->
            [resp |-> "connection",
             query |-> <<"P", "i", "p", "e", "l", "i", "n", "e", " ", "c", "o", "n", "n", "e", "c", "t", "i", "o",
      "n", " ", "e", "r", "r", "o", "r", ":", " ">> \o ConnectionErrorText]
      [] http.kind = "status" /\ http.code = 200 ->
            IF ErrorLogs(http.text) # <<>>
            THEN [resp |-> "response", query |-> JoinLines(LastLines(ErrorLogs(http.text)))]
            ELSE [resp |-> "response",
                  query |-> <<"N", "o", " ", "s", "p", "e", "c", "i", "f", "i", "c", " ", "e", "r", "r", "o", "r", " ",
      "l", "o", "g", "s", " ", "f", "o", "u", "n", "d", " ", "i", "n", " ", "p", "i", "p",
      "e", "l", "i", "n", "e", " ", "c", "o", "n", "s", "o", "l", "e", " ", "o", "u", "t",
      "p", "u", "t", " ", "f", "r", "o", "m", " ">>
                            \o url]
      [] http.kind = "status" /\ http.code = 401 ->
            [resp |-> "unauthorized",
             query |-> <<"P", "i", "p", "e", "l", "i", "n", "e", " ", "a", "c", "c", "e", "s", "s", " ", "d", "e",
      "n", "i", "e", "d", " ", "f", "o", "r", " ">> \o url
                       \o <<".", " ", "P", "l", "e", "a", "s", "e", " ", "c", "h", "e", "c", "k", " ", "c", "r", "e",
      "d", "e", "n", "t", "i", "a", "l", "s", ".">>]
      [] OTHER ->
            [resp |-> StatusMarker(http.code),
             query |-> <<"C", "o", "u", "l", "d", " ", "n", "o", "t", " ", "f", "e", "t", "c", "h", " ", "p", "i",
      "p", "e", "l", "i", "n", "e", " ", "l", "o", "g", "s", " ", "f", "r", "o", "m", " ">> \o url]

\* outcomes of requests.get(console_url, ..., timeout=30)
ConsoleLogs ==
    {<<"S", "t", "a", "r", "t", "e", "d", " ", "b", "y", " ", "u", "s", "e", "r", "\n", " ",
      "E", "R", "R", "O", "R", ":", " ", "s", "t", "e", "p", " ", "1", ".", "x", " ", "f",
      "a", "i", "l", "e", "d", " ", "\n", "F", "i", "n", "i", "s", "h", "e", "d", ":", " ",
      "F", "A", "I", "L", "U", "R", "E">>,
     <<"S", "t", "a", "r", "t", "e", "d", " ", "b", "y", " ", "u", "s", "e", "r", "\n", "F",
      "i", "n", "i", "s", "h", "e", "d", ":", " ", "S", "U", "C", "C", "E", "S", "S">>}
HttpOutcomes ==
    {[kind |-> "status", code |-> 200, text |-> t] : t \in ConsoleLogs}
      \cup {[kind |-> "status", code |-> c, text |-> <<>>] : c \in {401, 500}}
      \cup {[kind |-> "timeout"], [kind |-> "connection"]}

\* ------------------------------------------------------------ vector index
\* the embedding of a text: identified by the text that was encoded
Encode(text) == <<"vec", text>>

BatchSize == 100
\* variant of EncodeBatches: only the first batch is encoded
EncodeBatches_first(texts) ==
    [i \in 1..(IF Len(texts) < BatchSize THEN Len(texts) ELSE BatchSize) |-> Encode(texts[i])]

\* model.encode(batch) over the batches of batch_size texts, concatenated
RECURSIVE EncodeBatches(_)
EncodeBatches(texts) ==
    IF texts = <<>> THEN <<>>
    ELSE LET n == IF Len(texts) < BatchSize THEN Len(texts) ELSE BatchSize
         IN  [i \in 1..n |-> Encode(texts[i])] \o EncodeBatches(SubSeq(texts, n + 1, Len(texts)))

\* a persisted artifact: missing, unreadable (partly written) or ok with content
Missing == [state |-> "missing", content |-> <<>>]
Unreadable == [state |-> "unreadable", content |-> <<>>]
Stored(content) == [state |-> "ok", content |-> content]

\* index.search(query_embedding, k): the positions of the k nearest vectors,
\* nearest first, -1 where the index holds fewer than k.  The distances are
\* the embedding model's; two rankings stand for them, ascending and
\* descending position.
SearchResults(ntotal) ==
    LET n == IF ntotal < K THEN ntotal ELSE K
    IN  {[i \in 1..K |-> IF i <= n THEN i - 1 ELSE 0 - 1],
         [i \in 1..K |-> IF i <= n THEN ntotal - i ELSE 0 - 1]}

\* ------------------------------------------------------ LLM response lines
\* A response line after line.strip(): whether it contains '|', and its
\* parts after line.split('|') (each stripped) or line.split(' ', 2).
\* A blank line has no parts.
BlankLine == [pipe |-> FALSE, parts |-> <<>>]

\* first fields: digit strings, a non-digit, and a character for which
\* str.isdigit() is true but int() raises ValueError (such as a superscript)
FirstFields == {"0", "1", "x", "sup2"}
\* second fields: numbers, float specials and a non-number
SecondFields == {"0.61", "0.6", "1.5", "nan", "abc"}
\* third fields
ReasonFields == {"r1"}

PartsOf(n) ==
    CASE n = 1 -> {<<f>> : f \in FirstFields}
      [] n = 2 -> {<<f, c>> : f \in FirstFields, c \in SecondFields}
      [] OTHER -> {<<f, c, r>> : f \in FirstFields, c \in SecondFields, r \in ReasonFields}

\* every line an LLM response may hold
Lines ==
    {BlankLine}
      \cup {[pipe |-> FALSE, parts |-> ps] : ps \in PartsOf(1) \cup PartsOf(2) \cup PartsOf(3)}
      \cup {[pipe |-> TRUE, parts |-> ps] : ps \in PartsOf(2) \cup PartsOf(3)}

\* raw_response = "0 0.8 Fallback selection - keyword matching applied"
FallbackReason == "Fallback selection - keyword matching applied"
FallbackLine == [pipe |-> FALSE, parts |-> <<"0", "0.8", FallbackReason>>]

\* str.isdigit()
isdigit(f) == f \in {"0", "1", "sup2"}
\* int(f) raises ValueError
IntRaises(f) == f \notin {"0", "1"}
\* int(f)
int(f) == IF f = "0" THEN 0 ELSE 1
\* float(f) raises ValueError
FloatRaises(f) == f \notin {"0.8", "0.6", "0.61", "1.5", "nan"}
\* float(f), in hundredths
float(f) ==
    CASE f = "0.8" -> FallbackConfidence [] f = "0.6" -> 60
      [] f = "0.61" -> 61 [] f = "1.5" -> 150 [] OTHER -> NaN

\* the names of the three locals that a line's assignments bind
AllLocals == {"local_idx", "confidence", "reason"}

\* ------------------------------------------------- response lines as text
RECURSIVE SplitMax(_, _, _)
\* s.split(c, n): at most n splits at the character c
SplitMax(s, c, n) ==
    IF n > 0 /\ \E i \in 1..Len(s) : s[i] = c
    THEN LET i == CHOOSE k \in 1..Len(s) : s[k] = c /\ \A m \in 1..(k - 1) : s[m] # c
         IN  <<SubSeq(s, 1, i - 1)>> \o SplitMax(SubSeq(s, i + 1, Len(s)), c, n - 1)
    ELSE <<s>>

\* s.split(c)
SplitAll(s, c) == SplitMax(s, c, Len(s))

\* the fallback line as text
FallbackText == <<"0", " ", "0", ".", "8", " ", "F", "a", "l", "l", "b", "a", "c", "k", " ", "s", "e", "l",
      "e", "c", "t", "i", "o", "n", " ", "-", " ", "k", "e", "y", "w", "o", "r", "d", " ",
      "m", "a", "t", "c", "h", "i", "n", "g", " ", "a", "p", "p", "l", "i", "e", "d">>

\* the name a field's text has among the fields of Lines; "x" names a text
\* that is neither a digit string nor a number
FieldName(t) ==
    CASE t = <<"0">> -> "0"
      [] t = <<"1">> -> "1"
      [] t = <<"0", ".", "6", "1">> -> "0.61"
      [] t = <<"0", ".", "8">> -> "0.8"
      [] t = <<"r", "1">> -> "r1"
      [] t = SubSeq(FallbackText, 7, Len(FallbackText)) -> FallbackReason
      [] OTHER -> "x"

\* line.strip() and the split of parse_llm_response on one raw line
LineOf(raw) ==
    LET l == Strip(raw)
    IN  IF l = <<>> THEN BlankLine
        ELSE IF \E i \in 1..Len(l) : l[i] = "|"
             THEN LET ps == SplitAll(l, "|")
                  IN  [pipe |-> TRUE, parts |-> [i \in 1..Len(ps) |-> FieldName(Strip(ps[i]))]]
             ELSE LET ps == SplitMax(l, " ", 2)
                  IN  [pipe |-> FALSE, parts |-> [i \in 1..Len(ps) |-> FieldName(ps[i])]]

\* separators between the fields of a line
WhitespaceSeparators == {<<" ">>, <<" ", " ">>, <<"\t">>}
PipeSeparators == {<<"|">>, <<" ", "|", " ">>}

\* lines of three fields: a digit string, a number above the threshold and
\* a reason, with one separator between them
ThreeFieldLines ==
    [idx : {<<"0">>, <<"1">>}, sep : WhitespaceSeparators \cup PipeSeparators,
     conf : {<<"0", ".", "6", "1">>}, rsn : {<<"r", "1">>}]

\* the text of such a line
LineText(w) == w.idx \o w.sep \o w.conf \o w.sep \o w.rsn

\* raw lines of an LLM response: the three-field lines, one of them
\* indented, a blank line, and a line whose reason holds a '|'
LineTexts ==
    {LineText(w) : w \in ThreeFieldLines}
      \cup {<<" ", " ", "0", " ", "0", ".", "6", "1", " ", "r", "1", " ">>, <<" ">>, <<"0", " ", "0", ".", "6", "1", " ", "r", "|", "1">>}

\* ------------------------------------------------------------------- state
VARIABLES
    entry,            \* the function the caller invoked
    pc,               \* position of the call
    exc,              \* the exception in flight or escaped, "" when none
    exc_in,           \* the function whose body raised it
    result,           \* the list returned to the caller
    retrieved_docs,   \* candidate rows, (doc_id, failure, root_cause, solution)
    chunk_size,       \* query_llm_model's chunk_size argument
    chunk_start,      \* loop variable of query_llm_model
    final_solutions,  \* query_llm_model's accumulator
    llm,              \* outcome of ollama.chat for the current chunk
    line,             \* parse_llm_response's loop variable
    nlines,           \* lines of the current response already parsed
    lines_read,       \* lines of LLM text parsed since the call began
    llm_calls,        \* calls of ollama.chat since the call began
    llm_failed,       \* those of them that raised
    local_idx,        \* parse_llm_response's local
    confidence,       \* parse_llm_response's local
    reason,           \* parse_llm_response's local
    bound,            \* which of the three locals are bound
    solutions,        \* parse_llm_response's result list
    input_query,      \* main's argument
    resp,             \* the source marker get_actual_devops_data returns
    query,            \* the effective query
    embedding_model,  \* the sentence transformer, once loaded
    data,             \* the knowledge base handed to vectorize_devops_data
    index_file,       \* data/faiss_index_devops_docs.index
    data_file,        \* data/indexed_devops_data.pkl
    encoded_query,    \* the texts handed to embedding_model.encode by query_faiss_index
    fetched_url,      \* the URLs handed to requests.get
    console_logs,     \* detect_and_process_pipeline_query's local: the text of a 200 response
    index,            \* query_faiss_index's local: the index read from the file
    builder,          \* position of a vectorize_devops_data run by another request
    builder_data,     \* that run's data argument
    include_confidence, \* the request's include_confidence
    max_solutions,    \* the request's max_solutions
    solution_models,  \* the solutions of the response
    total_solutions,  \* the response's total_solutions
    devops_db         \* data/devops_issues.db

scorerVars == <<retrieved_docs, chunk_size, chunk_start, final_solutions, llm,
                line, nlines, lines_read, llm_calls, llm_failed, local_idx, confidence, reason, bound, solutions>>
callVars == <<entry, pc, exc, exc_in, result>>
storeVars == <<index, builder, builder_data>>
apiVars == <<include_confidence, max_solutions, solution_models, total_solutions>>
mainVars == <<input_query, resp, query, embedding_model, data, index_file, data_file,
              encoded_query, fetched_url, console_logs, apiVars, devops_db, storeVars>>
vars == <<callVars, scorerVars, mainVars>>

\* cleaned_retrieved_docs as query_faiss_index builds it from retrieved_docs
cleaned_retrieved_docs == [i \in 1..Len(retrieved_docs) |-> DocText(retrieved_docs[i])]

\* variant of chunk_end: the end is not clamped to the list's length
chunk_end_unclamped == chunk_start + chunk_size

\* chunk_end = min(chunk_start + chunk_size, len(cleaned_retrieved_docs))
chunk_end ==
    IF chunk_start + chunk_size < Len(cleaned_retrieved_docs)
    THEN chunk_start + chunk_size ELSE Len(cleaned_retrieved_docs)

\* chunk = cleaned_retrieved_docs[chunk_start:chunk_end]
chunk == SubSeq(cleaned_retrieved_docs, chunk_start + 1, chunk_end)

\* ------------------------------------------------------------- the scorer
\* the entry create_solution_entry builds from candidate doc
Entry(doc, conf, rsn, global_idx) ==
    [Failure      |-> doc[2],
     RootCause    |-> doc[3],
     Solution     |-> doc[4],
     confidence   |-> conf,
     reason       |-> rsn,
     global_index |-> global_idx]

\* variant of create_solution_entry: the threshold test is "confidence < 0.6"
create_solution_entry_inclusive(l_idx, conf, rsn, chunk_offset, docs) ==
    IF FloatLT(conf, Threshold) THEN <<>>
    ELSE LET global_idx == chunk_offset + l_idx
         IN  IF 0 <= global_idx /\ global_idx < Len(docs)
             THEN <<Entry(docs[global_idx + 1], conf, rsn, global_idx)>>
             ELSE <<>>

\* variant of create_solution_entry: the chunk offset is not added
create_solution_entry_no_offset(l_idx, conf, rsn, chunk_offset, docs) ==
    IF FloatLE(conf, Threshold) THEN <<>>
    ELSE LET global_idx == l_idx
         IN  IF 0 <= global_idx /\ global_idx < Len(docs)
             THEN <<Entry(docs[global_idx + 1], conf, rsn, global_idx)>>
             ELSE <<>>

\* create_solution_entry: the entry as a one-element list, <<>> for None
create_solution_entry(l_idx, conf, rsn, chunk_offset, docs) ==
    IF FloatLE(conf, Threshold) THEN <<>>
    ELSE LET global_idx == chunk_offset + l_idx
         IN  IF 0 <= global_idx /\ global_idx < Len(docs)
             THEN LET doc == docs[global_idx + 1]
                  IN  IF Len(doc) >= 4
                      THEN <<Entry(doc, conf, rsn, global_idx)>>
                      ELSE <<>>
             ELSE <<>>

\* The assignments one line makes before create_solution_entry is reached.
\* kind "continue": the loop moves on (blank line, unmatched whitespace line,
\* or ValueError caught); kind "call": create_solution_entry is called next.
\* idx/conf/rsn/bnd are the locals after the line's assignments.
Assignments(l, idx, conf, rsn, bnd) ==
    LET same == [kind |-> "continue", idx |-> idx, conf |-> conf, rsn |-> rsn, bnd |-> bnd]
        fall == [same EXCEPT !.kind = "call"]
        \* local_idx = int(parts[0]); confidence = float(parts[1]); reason = r
        assign(r) ==
            IF IntRaises(l.parts[1]) THEN same
            ELSE IF FloatRaises(l.parts[2])
                 THEN [same EXCEPT !.idx = int(l.parts[1]),
                                   !.bnd = bnd \cup {"local_idx"}]
                 ELSE [kind |-> "call", idx |-> int(l.parts[1]),
                       conf |-> float(l.parts[2]), rsn |-> r, bnd |-> AllLocals]
    IN  IF l.parts = <<>> THEN same
        ELSE IF l.pipe
             THEN IF Len(l.parts) >= 3 /\ isdigit(l.parts[1])
                  THEN assign(l.parts[3])
                  ELSE fall
             ELSE IF Len(l.parts) >= 2 /\ isdigit(l.parts[1])
                  THEN assign(IF Len(l.parts) > 2 THEN l.parts[3] ELSE "Selected by LLM")
                  ELSE same

RECURSIVE InsertByConfidence_unstable(_, _)
\* variant of InsertByConfidence: x goes in front of the elements equal to it
InsertByConfidence_unstable(sorted, x) ==
    IF sorted = <<>> THEN <<x>>
    ELSE IF Head(sorted).confidence > x.confidence
         THEN <<Head(sorted)>> \o InsertByConfidence_unstable(Tail(sorted), x)
         ELSE <<x>> \o sorted

\* stable insertion of x behind every element whose confidence is >= x's
RECURSIVE InsertByConfidence(_, _)
InsertByConfidence(sorted, x) ==
    IF sorted = <<>> THEN <<x>>
    ELSE IF Head(sorted).confidence >= x.confidence
         THEN <<Head(sorted)>> \o InsertByConfidence(Tail(sorted), x)
         ELSE <<x>> \o sorted

RECURSIVE SortFrom(_, _)
SortFrom(sorted, rest) ==
    IF rest = <<>> THEN sorted
    ELSE SortFrom(InsertByConfidence(sorted, Head(rest)), Tail(rest))

\* final_solutions.sort(key=confidence, reverse=True): stable, descending
SortByConfidence(sols) == SortFrom(<<>>, sols)

\* the exception int(confidence * 10) raises in display_hackathon_results
DisplayRaises(sols) ==
    IF \E i \in 1..Len(sols) : sols[i].confidence = NaN THEN "ValueError" ELSE ""

\* the canonical value of the parser's locals while none is bound
ResetParser ==
    /\ line' = BlankLine
    /\ nlines' = 0
    /\ local_idx' = 0
    /\ confidence' = 0
    /\ reason' = ""
    /\ bound' = {}

\* an exception leaves the running function
Raise(e, fn) ==
    /\ pc' = "raised"
    /\ exc' = e
    /\ exc_in' = fn

\* query_llm_model, up to the loop: an empty candidate list returns []
query_llm_model ==
    /\ pc = "query_llm_model"
    /\ IF retrieved_docs = <<>>
       THEN /\ pc' = "returned"
            /\ result' = <<>>
            /\ UNCHANGED <<chunk_start, final_solutions>>
       ELSE /\ pc' = "chunk"
            /\ final_solutions' = <<>>
            /\ chunk_start' = 0
            /\ UNCHANGED result
    /\ UNCHANGED mainVars
    /\ UNCHANGED <<entry, exc, exc_in, retrieved_docs, chunk_size, llm,
                   line, nlines, lines_read, llm_calls, llm_failed, local_idx, confidence, reason, bound, solutions>>

\* variant of NextChunk: the loop ends after its first chunk
NextChunk_stops(sols) ==
    /\ final_solutions' = final_solutions \o sols
    /\ chunk_start' = chunk_start + chunk_size
    /\ pc' = "display"
    /\ solutions' = <<>>
    /\ llm' = "idle"
    /\ ResetParser

\* after parse_llm_response: final_solutions.extend(solutions), next chunk
NextChunk(sols) ==
    /\ final_solutions' = final_solutions \o sols
    /\ chunk_start' = chunk_start + chunk_size
    /\ pc' = IF chunk_start + chunk_size < Len(cleaned_retrieved_docs)
             THEN "chunk" ELSE "display"
    /\ solutions' = <<>>
    /\ llm' = "idle"
    /\ ResetParser

\* ollama.chat answers with some text other than "NONE"
ChatResponds ==
    /\ pc = "chunk"
    /\ pc' = "parse"
    /\ llm' = "ok"
    /\ llm_calls' = llm_calls + 1
    /\ solutions' = <<>>
    /\ ResetParser
    /\ UNCHANGED mainVars
    /\ UNCHANGED <<entry, exc, exc_in, result, retrieved_docs, chunk_size,
                   chunk_start, final_solutions, lines_read, llm_failed>>

\* ollama.chat answers "NONE" (any case, surrounding blanks): no selection
ChatRespondsNone ==
    /\ pc = "chunk"
    /\ llm_calls' = llm_calls + 1
    /\ NextChunk(<<>>)
    /\ UNCHANGED mainVars
    /\ UNCHANGED <<entry, exc, exc_in, result, retrieved_docs, chunk_size, lines_read,
                   llm_failed>>

\* variant of ChatRaises: the exception of ollama.chat is not caught
ChatRaises_propagates ==
    /\ pc = "chunk"
    /\ Raise("ConnectionError", "query_llm_model")
    /\ llm' = "failed"
    /\ llm_calls' = llm_calls + 1
    /\ llm_failed' = llm_failed + 1
    /\ UNCHANGED mainVars
    /\ UNCHANGED <<entry, result, retrieved_docs, chunk_size, chunk_start, final_solutions,
                   lines_read, line, nlines, local_idx, confidence, reason, bound, solutions>>

\* ollama.chat raises: raw_response is the fixed fallback line
ChatRaises ==
    /\ pc = "chunk"
    /\ pc' = "parse"
    /\ llm' = "failed"
    /\ llm_calls' = llm_calls + 1
    /\ llm_failed' = llm_failed + 1
    /\ solutions' = <<>>
    /\ ResetParser
    /\ UNCHANGED mainVars
    /\ UNCHANGED <<entry, exc, exc_in, result, retrieved_docs, chunk_size,
                   chunk_start, final_solutions, lines_read>>

\* the for statement of parse_llm_response takes the next line of the
\* response: a line of the LLM's text, out of ls, or the one fallback line
NextLine(ls) ==
    /\ pc = "parse"
    /\ IF llm = "failed"
       THEN nlines = 0 /\ line' = FallbackLine /\ UNCHANGED lines_read
       ELSE lines_read < MaxLines /\ line' \in ls /\ lines_read' = lines_read + 1
    /\ nlines' = nlines + 1
    /\ pc' = "line"
    /\ UNCHANGED mainVars
    /\ UNCHANGED <<entry, exc, exc_in, result, retrieved_docs, chunk_size, chunk_start,
                   final_solutions, llm, llm_calls, llm_failed, local_idx, confidence,
                   reason, bound, solutions>>

\* ollama.chat is called without a timeout: the server accepts the request
\* and never answers, and the call never returns
ChatHangs ==
    /\ pc = "chunk"
    /\ pc' = "blocked"
    /\ llm' = "waiting"
    /\ llm_calls' = llm_calls + 1
    /\ UNCHANGED mainVars
    /\ UNCHANGED <<entry, exc, exc_in, result, retrieved_docs, chunk_size, chunk_start,
                   final_solutions, line, nlines, lines_read, llm_failed, local_idx,
                   confidence, reason, bound, solutions>>

\* the next line is any line of Lines
parse_llm_response_for == NextLine(Lines)

\* the next line is the split of a raw line of LineTexts
parse_llm_response_for_text == NextLine({LineOf(t) : t \in LineTexts})

\* the loop body of parse_llm_response on the current line; the loop
\* variable is dead once the body is left
parse_llm_response_body ==
    LET a == Assignments(line, local_idx, confidence, reason, bound)
    IN  /\ pc = "line"
        /\ line' = BlankLine
        /\ local_idx' = a.idx
        /\ confidence' = a.conf
        /\ reason' = a.rsn
        /\ bound' = a.bnd
        /\ IF a.kind = "call" /\ a.bnd # AllLocals
           THEN \* a local read before assignment
                /\ Raise("UnboundLocalError", "parse_llm_response")
                /\ UNCHANGED solutions
           ELSE /\ solutions' =
                       IF a.kind = "call"
                       THEN solutions \o create_solution_entry(a.idx, a.conf, a.rsn,
                                                               chunk_start, retrieved_docs)
                       ELSE solutions
                /\ pc' = "parse"
                /\ UNCHANGED <<exc, exc_in>>
        /\ UNCHANGED mainVars
        /\ UNCHANGED <<entry, result, retrieved_docs, chunk_size, chunk_start,
                       final_solutions, llm, nlines, lines_read, llm_calls, llm_failed>>

\* the response has no further line: parse_llm_response returns solutions
parse_llm_response_return ==
    /\ pc = "parse"
    /\ (llm = "failed" => nlines = 1)
    /\ NextChunk(solutions)
    /\ UNCHANGED mainVars
    /\ UNCHANGED <<entry, exc, exc_in, result, retrieved_docs, chunk_size, lines_read,
                   llm_calls, llm_failed>>

\* display_hackathon_results sorts in place and prints; query_llm_model
\* then returns final_solutions
display_hackathon_results ==
    /\ pc = "display"
    /\ IF DisplayRaises(final_solutions) # ""
       THEN /\ Raise(DisplayRaises(final_solutions), "display_hackathon_results")
            /\ UNCHANGED <<final_solutions, result>>
       ELSE /\ final_solutions' = SortByConfidence(final_solutions)
            /\ result' = SortByConfidence(final_solutions)
            /\ pc' = "returned"
            /\ UNCHANGED <<exc, exc_in>>
    /\ UNCHANGED mainVars
    /\ UNCHANGED <<entry, retrieved_docs, chunk_size, chunk_start, llm,
                   line, nlines, lines_read, llm_calls, llm_failed, local_idx, confidence, reason, bound, solutions>>

\* ------------------------------------------------------------------- main
\* input_query=None
NoneInput == <<"None">>
\* "Jenkins build failed with timeout error"
DefaultQuery == <<"J", "e", "n", "k", "i", "n", "s", " ", "b", "u", "i", "l", "d", " ", "f", "a", "i", "l",
      "e", "d", " ", "w", "i", "t", "h", " ", "t", "i", "m", "e", "o", "u", "t", " ", "e",
      "r", "r", "o", "r">>

\* variant of Catches: the handler is "except (ValueError, IndexError)"
Catches_parse_errors(e) == e \in {"ValueError", "IndexError"}

\* main's "except Exception" catches e
Catches(e) == e \in {"ValueError", "IndexError", "OverflowError", "UnboundLocalError",
                     "OSError", "RuntimeError", "ConnectionError", "RequestException"}

\* get_embedding_model: SentenceTransformer(...) loads, from the local
\* directory or from the hub, or raises; then the default query replaces None
get_embedding_model ==
    /\ pc = "main"
    /\ \/ /\ embedding_model' = "loaded"
          /\ input_query' = IF input_query = NoneInput THEN DefaultQuery ELSE input_query
          /\ pc' = "get_actual_devops_data"
          /\ UNCHANGED <<exc, exc_in>>
       \/ /\ Raise("OSError", "get_embedding_model")
          /\ UNCHANGED <<embedding_model, input_query>>
    /\ UNCHANGED <<entry, result, scorerVars, resp, query, data, index_file, data_file,
                   encoded_query, fetched_url, console_logs, apiVars, devops_db>>
    /\ UNCHANGED storeVars

\* variant of RequestHandlers: only requests.exceptions.Timeout is caught
RequestHandlers_timeout_only == {"timeout"}

\* the failures of requests.get that detect_and_process_pipeline_query
\* catches: Timeout and every other RequestException
RequestHandlers == {"timeout", "connection"}

\* what detect_and_process_pipeline_query does for a detected URL and an
\* outcome of requests.get: the marker and the text it returns, the URL it
\* requested, the text of a 200 response, and the exception that escapes
\* it, "" when none
Fetched(extracted_url, http) ==
    [resp         |-> FetchResult(extracted_url, http).resp,
     query        |-> FetchResult(extracted_url, http).query,
     requested    |-> <<ConsoleUrl(extracted_url)>>,
     console_logs |-> IF http.kind = "status" /\ http.code = 200 THEN http.text ELSE <<>>,
     exc          |-> IF http.kind = "status" \/ http.kind \in RequestHandlers
                      THEN "" ELSE "RequestException"]

\* variant of ActualDevopsData: a direct query is passed through clean_text
ActualDevopsData_cleaned(input, outcomes) ==
    LET d == DetectUrl(input)
    IN  IF d.is_pipeline_query
        THEN {Fetched(d.extracted_url, http) : http \in outcomes}
        ELSE {[resp |-> "user input", query |-> clean_text(input), requested |-> <<>>,
               console_logs |-> <<>>, exc |-> ""]}

\* what get_actual_devops_data(input) may do, one record for each outcome
\* of requests.get
ActualDevopsData(input, outcomes) ==
    LET d == DetectUrl(input)
    IN  IF d.is_pipeline_query
        THEN {Fetched(d.extracted_url, http) : http \in outcomes}
        ELSE {[resp |-> "user input", query |-> input, requested |-> <<>>,
               console_logs |-> <<>>, exc |-> ""]}

\* get_actual_devops_data where requests.get ends in one of outcomes
GetActualDevopsData(outcomes) ==
    /\ pc = "get_actual_devops_data"
    /\ \E r \in ActualDevopsData(input_query, outcomes) :
           /\ fetched_url' = fetched_url \o r.requested
           /\ IF r.exc # ""
              THEN /\ Raise(r.exc, "get_actual_devops_data")
                   /\ UNCHANGED <<resp, query, console_logs>>
              ELSE /\ resp' = r.resp
                   /\ query' = r.query
                   /\ console_logs' = r.console_logs
                   /\ pc' = IF entry = "main" THEN "get_devops_knowledgebase" ELSE "returned"
                   /\ UNCHANGED <<exc, exc_in>>
    /\ UNCHANGED <<entry, result, scorerVars, input_query, embedding_model,
                   data, index_file, data_file, encoded_query>>
    /\ UNCHANGED storeVars
    /\ UNCHANGED <<apiVars, devops_db>>

\* get_actual_devops_data: the fetched log text, or the input itself
get_actual_devops_data == GetActualDevopsData(HttpOutcomes)

\* the i-th row of the devops_issues table
DbRow(i) ==
    [failure    |-> <<"D", "i", "s", "k", " ", "*", "f", "u", "l", "l", "*", " ", "#">> \o <<DigitOf(i)>>,
     root_cause |-> <<"L", "o", "g", "s", "\n", "f", "i", "l", "l", " ", "/", "v", "a", "r">>,
     solution   |-> <<"1", ".", "C", "l", "e", "a", "n", " ", "2", ".", "R", "o", "t", "a", "t", "e">>]

\* states of data/devops_issues.db
DbStates == {Missing, Unreadable} \cup {Stored([i \in 1..n |-> DbRow(i)]) : n \in 0..MaxRows}

\* load_from_database: the issues, or None
load_from_database(db) ==
    IF db.state = "ok" THEN [none |-> FALSE, issues |-> db.content]
    ELSE [none |-> TRUE, issues |-> <<>>]

\* variant of KnowledgeBase: the rows are used whenever the load succeeded
KnowledgeBase_loaded(db) ==
    LET db_issues == load_from_database(db)
    IN  IF ~db_issues.none
        THEN AsTuples(db_issues.issues)
        ELSE AsTuples(create_devops_knowledge_base)

\* get_devops_knowledgebase on database db
KnowledgeBase(db) ==
    LET db_issues == load_from_database(db)
    IN  IF ~db_issues.none /\ db_issues.issues # <<>>
        THEN AsTuples(db_issues.issues)
        ELSE AsTuples(create_devops_knowledge_base)

get_devops_knowledgebase ==
    /\ pc = "get_devops_knowledgebase"
    /\ data' = KnowledgeBase(devops_db)
    /\ pc' = IF entry = "main" THEN "vectorize_devops_data" ELSE "returned"
    /\ UNCHANGED <<entry, exc, exc_in, result, scorerVars, input_query, resp, query,
                   embedding_model, index_file, data_file, encoded_query, fetched_url, console_logs, apiVars, devops_db>>
    /\ UNCHANGED storeVars

\* the texts vectorize_devops_data encodes
IndexTexts(rows) == [i \in 1..Len(rows) |-> DocText(rows[i])]

\* vectorize_devops_data: encode, write the index, write the metadata; any
\* failure is re-raised
vectorize_devops_data ==
    /\ pc = "vectorize_devops_data"
    /\ \/ \* all three succeed
          /\ data # <<>>
          /\ index_file' = Stored(EncodeBatches(IndexTexts(data)))
          /\ data_file' = Stored(data)
          /\ pc' = "query_faiss_index"
          /\ UNCHANGED <<exc, exc_in>>
       \/ \* model.encode raises, or embeddings.shape[1] on an empty array
          /\ Raise(IF data = <<>> THEN "IndexError" ELSE "RuntimeError", "vectorize_devops_data")
          /\ UNCHANGED <<index_file, data_file>>
       \/ \* faiss.write_index raises: the file is untouched or partly written
          /\ data # <<>>
          /\ index_file' \in {index_file, Unreadable}
          /\ Raise("RuntimeError", "vectorize_devops_data")
          /\ UNCHANGED data_file
       \/ \* open or pickle.dump raises: the file is untouched or truncated
          /\ data # <<>>
          /\ index_file' = Stored(EncodeBatches(IndexTexts(data)))
          /\ data_file' \in {data_file, Unreadable}
          /\ Raise("OSError", "vectorize_devops_data")
    /\ data' = <<>>
    /\ UNCHANGED <<entry, result, scorerVars, input_query, resp, query, embedding_model,
                   encoded_query, fetched_url, console_logs, apiVars, devops_db>>
    /\ UNCHANGED storeVars

\* [indexed_data[idx] for idx in indices[0] if idx != -1]; <<>> stands for
\* the IndexError of a position outside indexed_data
RetrievedDocs(indexed_data, indices) ==
    LET valid == SelectSeq(indices, LAMBDA idx : idx # 0 - 1)
    IN  IF \E i \in 1..Len(valid) : valid[i] >= Len(indexed_data)
        THEN <<>>
        ELSE [i \in 1..Len(valid) |-> indexed_data[valid[i] + 1]]

\* variant of Candidates: an unavailable metadata file is replaced by the
\* built-in knowledge base
Candidates_builtin(idx, metadata) ==
    LET rows == IF metadata.state # "ok" THEN AsTuples(create_devops_knowledge_base)
                ELSE metadata.content
    IN  {RetrievedDocs(rows, indices) : indices \in SearchResults(Len(idx))}

\* what query_faiss_index returns as retrieved_docs once faiss.read_index has
\* given idx: embedding_model.encode(query), open and pickle.load of the
\* metadata, index.search and the mapping; any exception gives []
Candidates(idx, metadata) ==
    IF metadata.state # "ok" THEN {<<>>}
    ELSE {RetrievedDocs(metadata.content, indices) : indices \in SearchResults(Len(idx))}

\* between vectorize_devops_data and query_faiss_index an artifact is removed,
\* or is being rewritten by another process
artifact_lost ==
    /\ entry = "main"
    /\ pc = "query_faiss_index"
    /\ \/ index_file.state = "ok" /\ index_file' \in {Missing, Unreadable} /\ UNCHANGED data_file
       \/ data_file.state = "ok" /\ data_file' \in {Missing, Unreadable} /\ UNCHANGED index_file
    /\ UNCHANGED <<callVars, scorerVars, input_query, resp, query, embedding_model, data,
                   encoded_query, fetched_url, console_logs, apiVars, devops_db, storeVars>>

\* query_faiss_index: read the index, encode the query, load the metadata,
\* search; every exception gives ([], [])
query_faiss_index ==
    /\ pc = "query_faiss_index"
    /\ IF index_file.state # "ok"
       THEN \* faiss.read_index raises
            /\ retrieved_docs' = <<>>
            /\ UNCHANGED encoded_query
       ELSE /\ encoded_query' = Append(encoded_query, query)
            /\ retrieved_docs' \in Candidates(index_file.content, data_file)
    /\ pc' = "query_llm_model"
    /\ UNCHANGED <<entry, exc, exc_in, result, chunk_size, chunk_start, final_solutions, llm,
                   line, nlines, lines_read, llm_calls, llm_failed, local_idx, confidence,
                   reason, bound, solutions>>
    /\ UNCHANGED <<input_query, resp, query, embedding_model, data, index_file, data_file,
                   fetched_url, console_logs, apiVars, devops_db>>
    /\ UNCHANGED storeVars

\* main's except clause: print the error and return []
main_except ==
    /\ entry = "main"
    /\ pc = "raised"
    /\ IF Catches(exc)
       THEN pc' = "returned" /\ result' = <<>>
       ELSE pc' = "escaped" /\ UNCHANGED result
    /\ UNCHANGED <<entry, exc, exc_in, scorerVars, mainVars>>

\* the inputs of main
Inputs ==
    {NoneInput,
     <<"D", "o", "c", "k", "e", "r", " ", "b", "u", "i", "l", "d", " ", "f", "a", "i", "l", "e",
      "d">>,
     <<"B", "u", "i", "l", "d", " ", "*", "f", "a", "i", "l", "e", "d", "*", ":", " ", "1", ".",
      "t", "i", "m", "e", "o", "u", "t", "!">>,
     <<"s", "e", "e", " ", "h", "t", "t", "p", "s", ":", "/", "/", "c", "i", ".", "e", "x", "a",
      "m", "p", "l", "e", ".", "c", "o", "m", "/", "j", "o", "b", "/", "b", "1", "/", " ",
      "n", "o", "w">>}

\* the persisted pair before the call: absent, or left by an earlier build
\* of the built-in knowledge base
FilesBefore ==
    {<<Missing, Missing>>,
     <<Stored(EncodeBatches(IndexTexts(AsTuples(create_devops_knowledge_base)))),
       Stored(AsTuples(create_devops_knowledge_base))>>}

\* no index is loaded and no other request is building
StoreIdle ==
    /\ index = <<>>
    /\ builder = "idle"
    /\ builder_data = <<>>

\* no request is being answered: DevOpsQuery's defaults, no response yet
ApiIdle ==
    /\ include_confidence = TRUE
    /\ max_solutions = 5
    /\ solution_models = <<>>
    /\ total_solutions = 0

ScorerIdle ==
    /\ chunk_start = 0
    /\ final_solutions = <<>>
    /\ llm = "idle"
    /\ line = BlankLine
    /\ nlines = 0
    /\ lines_read = 0
    /\ llm_calls = 0
    /\ llm_failed = 0
    /\ local_idx = 0
    /\ confidence = 0
    /\ reason = ""
    /\ bound = {}
    /\ solutions = <<>>

Init ==
    /\ entry = "main"
    /\ pc = "main"
    /\ exc = ""
    /\ exc_in = ""
    /\ result = <<>>
    /\ retrieved_docs = <<>>
    /\ chunk_size = DefaultChunkSize
    /\ ScorerIdle
    /\ input_query \in Inputs
    /\ resp = ""
    /\ query = <<>>
    /\ embedding_model = "unloaded"
    /\ data = <<>>
    /\ \E f \in FilesBefore : index_file = f[1] /\ data_file = f[2]
    /\ encoded_query = <<>>
    /\ fetched_url = <<>>
    /\ console_logs = <<>>
    /\ ApiIdle
    /\ StoreIdle
    /\ devops_db \in DbStates

\* ------------------------------------------------- direct call of the scorer
\* the knowledge-base rows a candidate list is drawn from
BuiltinRows == AsTuples(create_devops_knowledge_base)

\* a search ranking of the rows: descending doc_id, so that no row's
\* position equals its doc_id
Ranked == [i \in 1..Len(BuiltinRows) |-> BuiltinRows[Len(BuiltinRows) + 1 - i]]

\* candidate lists of a direct call: the first n rows of the ranking
ScorerDocs == {SubSeq(Ranked, 1, n) : n \in 0..MaxDocs}

InitScorer ==
    /\ entry = "query_llm_model"
    /\ pc = "query_llm_model"
    /\ exc = ""
    /\ exc_in = ""
    /\ result = <<>>
    /\ retrieved_docs \in ScorerDocs
    /\ chunk_size \in 1..MaxChunk
    /\ ScorerIdle
    /\ input_query = <<>>
    /\ resp = ""
    /\ query = <<>>
    /\ embedding_model = "loaded"
    /\ data = <<>>
    /\ index_file = Missing
    /\ data_file = Missing
    /\ encoded_query = <<>>
    /\ fetched_url = <<>>
    /\ console_logs = <<>>
    /\ ApiIdle
    /\ StoreIdle
    /\ devops_db = Missing

NextScorer ==
    \/ query_llm_model
    \/ ChatResponds
    \/ ChatRespondsNone
    \/ ChatRaises
    \/ parse_llm_response_for
    \/ parse_llm_response_body
    \/ parse_llm_response_return
    \/ display_hackathon_results

SpecScorer == InitScorer /\ [][NextScorer]_vars

\* the scorer on responses given as text
NextParse ==
    \/ query_llm_model
    \/ ChatResponds
    \/ ChatRespondsNone
    \/ ChatRaises
    \/ parse_llm_response_for_text
    \/ parse_llm_response_body
    \/ parse_llm_response_return
    \/ display_hackathon_results

SpecParse == InitScorer /\ [][NextParse]_vars

Next ==
    \/ get_embedding_model
    \/ get_actual_devops_data
    \/ get_devops_knowledgebase
    \/ vectorize_devops_data
    \/ artifact_lost
    \/ query_faiss_index
    \/ main_except
    \/ NextScorer

Spec == Init /\ [][Next]_vars

\* ------------------------------------------------- POST /devops/analyze
\* the 0.6 of the API's confidence filter, in hundredths
ApiThreshold == 60

\* the largest max_solutions of a request
MaxSolutions == 2

\* DevOpsSolution(...) built from an engine solution
DevOpsSolution(sol) ==
    [failure      |-> sol.Failure,
     root_cause   |-> sol.RootCause,
     solution     |-> sol.Solution,
     confidence   |-> sol.confidence,
     reason       |-> sol.reason,
     global_index |-> sol.global_index]

\* solutions[:n] for n >= 0
Prefix(sols, n) == SubSeq(sols, 1, IF n < Len(sols) THEN n ELSE Len(sols))

\* variant of ApiSolutions: the count is not limited
ApiSolutions_unlimited(sols, include, limit) ==
    LET filtered == IF include
                    THEN SelectSeq(sols, LAMBDA sol : FloatGT(sol.confidence, ApiThreshold))
                    ELSE sols
    IN  [i \in 1..Len(filtered) |-> DevOpsSolution(filtered[i])]

\* solution_models as analyze_devops_issue builds it from main's list
ApiSolutions(sols, include, limit) ==
    LET filtered == IF include
                    THEN SelectSeq(sols, LAMBDA sol : FloatGT(sol.confidence, ApiThreshold))
                    ELSE sols
        limited  == Prefix(filtered, limit)
    IN  [i \in 1..Len(limited) |-> DevOpsSolution(limited[i])]

\* analyze_devops_issue once run_devops_analysis has returned: the response,
\* or HTTP 500 when an exception came out of the analysis
analyze_devops_issue ==
    /\ entry = "main"
    /\ pc \in {"returned", "escaped"}
    /\ IF pc = "escaped"
       THEN pc' = "http_500" /\ UNCHANGED <<solution_models, total_solutions>>
       ELSE /\ solution_models' = ApiSolutions(result, include_confidence, max_solutions)
            /\ total_solutions' = Len(ApiSolutions(result, include_confidence, max_solutions))
            /\ pc' = "responded"
    /\ UNCHANGED <<entry, exc, exc_in, result, scorerVars, input_query, resp, query, embedding_model,
                   data, index_file, data_file, encoded_query, fetched_url, console_logs, storeVars,
                   include_confidence, max_solutions, devops_db>>

\* the issues of the requests
ApiIssues ==
    {<<"D", "o", "c", "k", "e", "r", " ", "b", "u", "i", "l", "d", " ", "f", "a", "i", "l", "e",
      "d">>}

\* a request has arrived: issue, include_confidence and max_solutions
InitApi ==
    /\ entry = "main"
    /\ pc = "main"
    /\ exc = ""
    /\ exc_in = ""
    /\ result = <<>>
    /\ retrieved_docs = <<>>
    /\ chunk_size = DefaultChunkSize
    /\ ScorerIdle
    /\ input_query \in ApiIssues
    /\ resp = ""
    /\ query = <<>>
    /\ embedding_model = "unloaded"
    /\ data = <<>>
    /\ \E f \in FilesBefore : index_file = f[1] /\ data_file = f[2]
    /\ encoded_query = <<>>
    /\ fetched_url = <<>>
    /\ console_logs = <<>>
    /\ StoreIdle
    /\ include_confidence \in BOOLEAN
    /\ max_solutions \in 0..MaxSolutions
    /\ solution_models = <<>>
    /\ total_solutions = 0
    /\ devops_db \in DbStates

NextApi ==
    \/ Next
    \/ analyze_devops_issue

SpecApi == InitApi /\ [][NextApi]_vars

\* the scorer with an LLM server that may never answer; the process itself
\* keeps running whenever it can take a step
NextLive == NextScorer \/ ChatHangs

SpecLive == InitScorer /\ [][NextLive]_vars /\ WF_vars(NextLive)

\* ------------------------------- the persisted pair under build and search
\* A search (a direct call of query_faiss_index) runs while another request
\* runs vectorize_devops_data on the same data directory.  Each file
\* operation of either is one step.

\* databases the building request may find: those of DbStates and one with
\* more rows than an encoding batch holds
StoreDbStates == DbStates \cup {Stored([i \in 1..(BatchSize + 1) |-> DbRow(i)])}

\* the query of the direct search
StoreQuery == <<"D", "o", "c", "k", "e", "r">>

\* the building request stops: builder_data is dead
BuilderStops(how) ==
    /\ builder' = how
    /\ builder_data' = <<>>

\* vectorize_devops_data(get_devops_knowledgebase(), model) up to index.add:
\* the texts are encoded, or model.encode raises
vectorize_encode ==
    /\ builder = "idle"
    /\ \/ /\ builder_data' = KnowledgeBase(devops_db)
          /\ builder' = "write_index"
       \/ BuilderStops("failed")
    /\ UNCHANGED <<callVars, scorerVars, input_query, resp, query, embedding_model, data,
                   index_file, data_file, encoded_query, fetched_url, console_logs, apiVars, devops_db, index>>

\* faiss.write_index opens the index file for writing, or fails to
vectorize_write_index_open ==
    /\ builder = "write_index"
    /\ \/ /\ index_file' = Unreadable
          /\ builder' = "writing_index"
          /\ UNCHANGED builder_data
       \/ /\ BuilderStops("failed")
          /\ UNCHANGED index_file
    /\ UNCHANGED <<callVars, scorerVars, input_query, resp, query, embedding_model, data,
                   data_file, encoded_query, fetched_url, console_logs, apiVars, devops_db, index>>

\* faiss.write_index finishes writing, or fails part way
vectorize_write_index ==
    /\ builder = "writing_index"
    /\ \/ /\ index_file' = Stored(EncodeBatches(IndexTexts(builder_data)))
          /\ builder' = "open_data"
          /\ UNCHANGED builder_data
       \/ /\ BuilderStops("failed")
          /\ UNCHANGED index_file
    /\ UNCHANGED <<callVars, scorerVars, input_query, resp, query, embedding_model, data,
                   data_file, encoded_query, fetched_url, console_logs, apiVars, devops_db, index>>

\* open(..., "wb") truncates the metadata file, or fails
vectorize_open_data ==
    /\ builder = "open_data"
    /\ \/ /\ data_file' = Unreadable
          /\ builder' = "dump"
          /\ UNCHANGED builder_data
       \/ /\ BuilderStops("failed")
          /\ UNCHANGED data_file
    /\ UNCHANGED <<callVars, scorerVars, input_query, resp, query, embedding_model, data,
                   index_file, encoded_query, fetched_url, console_logs, apiVars, devops_db, index>>

\* pickle.dump(data, f) writes the metadata and vectorize_devops_data
\* returns, or fails part way
vectorize_dump ==
    /\ builder = "dump"
    /\ \/ /\ data_file' = Stored(builder_data)
          /\ BuilderStops("done")
       \/ /\ BuilderStops("failed")
          /\ UNCHANGED data_file
    /\ UNCHANGED <<callVars, scorerVars, input_query, resp, query, embedding_model, data,
                   index_file, encoded_query, fetched_url, console_logs, apiVars, devops_db, index>>

\* index = faiss.read_index(index_path); an exception returns ([], [])
query_faiss_index_read ==
    /\ entry = "query_faiss_index"
    /\ pc = "query_faiss_index"
    /\ IF index_file.state = "ok"
       THEN /\ index' = index_file.content
            /\ pc' = "search"
       ELSE /\ pc' = "returned"
            /\ UNCHANGED index
    /\ UNCHANGED <<entry, exc, exc_in, result, scorerVars, input_query, resp, query,
                   embedding_model, data, index_file, data_file, encoded_query, fetched_url, console_logs, apiVars, devops_db,
                   builder, builder_data>>

\* the rest of query_faiss_index: encode the query, load the metadata,
\* search the index read before, map the positions; index is dead on return
query_faiss_index_search ==
    /\ entry = "query_faiss_index"
    /\ pc = "search"
    /\ encoded_query' = Append(encoded_query, query)
    /\ retrieved_docs' \in Candidates(index, data_file)
    /\ index' = <<>>
    /\ pc' = "returned"
    /\ UNCHANGED <<entry, exc, exc_in, result, chunk_size, chunk_start, final_solutions, llm,
                   line, nlines, lines_read, llm_calls, llm_failed, local_idx, confidence,
                   reason, bound, solutions>>
    /\ UNCHANGED <<input_query, resp, query, embedding_model, data, index_file, data_file,
                   fetched_url, console_logs, apiVars, devops_db, builder, builder_data>>

InitStore ==
    /\ entry = "query_faiss_index"
    /\ pc = "query_faiss_index"
    /\ exc = ""
    /\ exc_in = ""
    /\ result = <<>>
    /\ retrieved_docs = <<>>
    /\ chunk_size = DefaultChunkSize
    /\ ScorerIdle
    /\ input_query = <<>>
    /\ resp = ""
    /\ query = StoreQuery
    /\ embedding_model = "loaded"
    /\ data = <<>>
    /\ \E f \in FilesBefore : index_file = f[1] /\ data_file = f[2]
    /\ encoded_query = <<>>
    /\ fetched_url = <<>>
    /\ console_logs = <<>>
    /\ ApiIdle
    /\ StoreIdle
    /\ devops_db \in StoreDbStates

NextStore ==
    \/ vectorize_encode
    \/ vectorize_write_index_open
    \/ vectorize_write_index
    \/ vectorize_open_data
    \/ vectorize_dump
    \/ query_faiss_index_read
    \/ query_faiss_index_search

SpecStore == InitStore /\ [][NextStore]_vars

\* ------------------------------------- direct call of get_actual_devops_data
\* inputs with a pipeline URL of each detected shape, and inputs with none
FetchInputs ==
    {<<"s", "e", "e", " ", "h", "t", "t", "p", "s", ":", "/", "/", "c", "i", ".", "e", "x", "a",
      "m", "p", "l", "e", ".", "c", "o", "m", "/", "j", "o", "b", "/", "b", "1", "/", " ",
      "n", "o", "w">>,
     <<"h", "t", "t", "p", "s", ":", "/", "/", "j", "e", "n", "k", "i", "n", "s", ".", "l", "o",
      "c", "a", "l", "/", "x">>,
     <<"h", "t", "t", "p", "s", ":", "/", "/", "g", "i", "t", "l", "a", "b", ".", "c", "o", "m",
      "/", "g", "/", "p", "i", "p", "e", "l", "i", "n", "e", "s", "/", "7">>,
     <<"h", "t", "t", "p", "s", ":", "/", "/", "c", "i", ".", "l", "o", "c", "a", "l", "/", "b",
      "u", "i", "l", "d", "/", "9">>,
     <<"h", "t", "t", "p", "s", ":", "/", "/", "c", "i", ".", "l", "o", "c", "a", "l", "/", "j",
      "o", "b", "/", "b", "1", "/", "c", "o", "n", "s", "o", "l", "e", "T", "e", "x", "t">>,
     <<"h", "t", "t", "p", "s", ":", "/", "/", "c", "i", ".", "l", "o", "c", "a", "l", "/", "j",
      "o", "b", "/", "b", "1", "/", "c", "o", "n", "s", "o", "l", "e", "T", "e", "x", "t",
      "/">>,
     <<"h", "t", "t", "p", "s", ":", "/", "/", "c", "i", ".", "l", "o", "c", "a", "l", "/", "c",
      "o", "n", "s", "o", "l", "e">>,
     <<"c", "h", "e", "c", "k", " ", "h", "t", "t", "p", "s", ":", "/", "/", "e", "x", "a", "m",
      "p", "l", "e", ".", "c", "o", "m", "/", "p", "i", "p", "e", "l", "i", "n", "e", "-",
      "s", "t", "a", "t", "u", "s">>,
     <<"H", "T", "T", "P", "S", ":", "/", "/", "J", "E", "N", "K", "I", "N", "S", ".", "L", "O",
      "C", "A", "L", "/", "j", "o", "b", "/", "1">>,
     <<"a", " ", "h", "t", "t", "p", "s", ":", "/", "/", "x", ".", "i", "o", "/", "j", "o", "b",
      "/", "1", " ", "b", " ", "h", "t", "t", "p", "s", ":", "/", "/", "j", "e", "n", "k",
      "i", "n", "s", ".", "i", "o", "/", "2">>,
     <<"h", "t", "t", "p", "s", ":", "/", "/", "c", "i", ".", "l", "o", "c", "a", "l", "/", "j",
      "o", "b", "/", "a", " ", "h", "t", "t", "p", "s", ":", "/", "/", "c", "i", ".", "l",
      "o", "c", "a", "l", "/", "j", "o", "b", "/", "b">>,
     <<"h", "t", "t", "p", "s", ":", "/", "/", "e", "x", "a", "m", "p", "l", "e", ".", "c", "o",
      "m", "/", "B", "u", "i", "l", "d", "-", "4", "2", " ", "f", "a", "i", "l", "e", "d">>,
     <<"h", "t", "t", "p", "s", ":", "/", "/", "x", ".", "i", "o", "/", "y", " ", "h", "t", "t",
      "p", "s", ":", "/", "/", "j", "e", "n", "k", "i", "n", "s", ".", "i", "o", "/", "z">>,
     <<"f", "i", "x", " ", "h", "t", "t", "p", "s", ":", "/", "/", "x", ".", "i", "o", "/", "j",
      "o", "b", "/", "1", ",", " ", "p", "l", "e", "a", "s", "e">>,
     <<"h", "t", "t", "p", "s", ":", "/", "/", "c", "i", ".", "l", "o", "c", "a", "l", "/", "j",
      "o", "b", "s">>,
     <<"D", "o", "c", "k", "e", "r", " ", "b", "u", "i", "l", "d", " ", "f", "a", "i", "l", "e",
      "d">>,
     <<"h", "t", "t", "p", ":", "/", "/", "j", "e", "n", "k", "i", "n", "s", ".", "l", "o", "c",
      "a", "l", "/", "j", "o", "b", "/", "1">>,
     <<"h", "t", "t", "p", "s", ":", "/", "/", "e", "x", "a", "m", "p", "l", "e", ".", "c", "o",
      "m", "/", "d", "o", "c", "s">>,
     <<"j", "e", "n", "k", "i", "n", "s", " ", "j", "o", "b", " ", "f", "a", "i", "l", "e", "d">>,
     <<"h", "t", "t", "p", "s", ":", "/", "/", " ", "j", "e", "n", "k", "i", "n", "s">>,
     <<"H", "T", "T", "P", "S", ":", "/", "/", "E", "X", "A", "M", "P", "L", "E", ".", "C", "O",
      "M", "/", "B", "U", "I", "L", "D">>,
     <<>>}

InitFetch ==
    /\ entry = "get_actual_devops_data"
    /\ pc = "get_actual_devops_data"
    /\ exc = ""
    /\ exc_in = ""
    /\ result = <<>>
    /\ retrieved_docs = <<>>
    /\ chunk_size = DefaultChunkSize
    /\ ScorerIdle
    /\ input_query \in FetchInputs
    /\ resp = ""
    /\ query = <<>>
    /\ embedding_model = "unloaded"
    /\ data = <<>>
    /\ index_file = Missing
    /\ data_file = Missing
    /\ encoded_query = <<>>
    /\ fetched_url = <<>>
    /\ console_logs = <<>>
    /\ ApiIdle
    /\ StoreIdle
    /\ devops_db = Missing

NextFetch == get_actual_devops_data

SpecFetch == InitFetch /\ [][NextFetch]_vars

\* --------------------------------------------- a 200 response of any length
\* the largest number of lines of a console log
MaxLogLines == 107
\* the longest of the short logs
ShortLog == 20

DecimalDigits == <<"0", "1", "2", "3", "4", "5", "6", "7", "8", "9">>
RECURSIVE Num(_)
\* the decimal numeral of i
Num(i) == IF i < 10 THEN <<DecimalDigits[i + 1]>> ELSE Num(i \div 10) \o <<DecimalDigits[(i % 10) + 1]>>

\* the i-th line of a console log: one that holds an error keyword, in one
\* of three shapes, or one that holds none
LogLine(i, matching) ==
    IF ~matching THEN <<"s", "t", "e", "p", " ">> \o Num(i) \o <<" ", "p", "a", "s", "s", "e", "d">>
    ELSE CASE i % 3 = 1 -> <<" ", " ", "E", "R", "R", "O", "R", ":", " ", "s", "t", "e", "p", " ">> \o Num(i) \o <<" ">>
           [] i % 3 = 2 -> <<"B", "u", "i", "l", "d", " ", "F", "A", "I", "L", "E", "D", " ">> \o Num(i) \o <<"\r">>
           [] OTHER -> Num(i) \o <<" ", "F", "a", "t", "a", "l", ":", " ", "c", "r", "a", "s", "h">>

\* which lines of a log hold an error keyword
LogPatterns == {"all", "most", "none"}
Matching(p, i) == p = "all" \/ (p = "most" /\ i % 16 # 0)

\* resp.text: n lines of pattern p
Log(n, p) == JoinLines([i \in 1..n |-> LogLine(i, Matching(p, i))])

\* the lengths of the logs: short ones, and those around the 100 lines kept
LogLengths == (0..ShortLog) \cup ((KeepLast - 5)..MaxLogLines)

\* requests.get answers 200 with a console log
LogOutcomes ==
    {[kind |-> "status", code |-> 200, text |-> Log(n, p)] : n \in LogLengths, p \in LogPatterns}

LogInputs ==
    {<<"h", "t", "t", "p", "s", ":", "/", "/", "c", "i", ".", "l", "o", "c", "a", "l", "/", "j",
      "o", "b", "/", "b", "1", "/">>,
     <<"s", "e", "e", " ", "h", "t", "t", "p", "s", ":", "/", "/", "c", "i", ".", "e", "x", "a",
      "m", "p", "l", "e", ".", "c", "o", "m", "/", "j", "o", "b", "/", "b", "1", "/", " ",
      "n", "o", "w">>}

InitLog ==
    /\ entry = "get_actual_devops_data"
    /\ pc = "get_actual_devops_data"
    /\ exc = ""
    /\ exc_in = ""
    /\ result = <<>>
    /\ retrieved_docs = <<>>
    /\ chunk_size = DefaultChunkSize
    /\ ScorerIdle
    /\ input_query \in LogInputs
    /\ resp = ""
    /\ query = <<>>
    /\ embedding_model = "unloaded"
    /\ data = <<>>
    /\ index_file = Missing
    /\ data_file = Missing
    /\ encoded_query = <<>>
    /\ fetched_url = <<>>
    /\ console_logs = <<>>
    /\ ApiIdle
    /\ StoreIdle
    /\ devops_db = Missing

\* get_actual_devops_data where the fetch answers 200
get_actual_devops_data_200 == GetActualDevopsData(LogOutcomes)

NextLog == get_actual_devops_data_200

SpecLog == InitLog /\ [][NextLog]_vars

\* ------------------------------------------------ direct call of clean_text
\* the longest text handed to clean_text
MaxText == 3

\* the characters of those texts: a letter, a digit, the characters the
\* four substitutions look for, the underscore and a blank
TextChars == {"a", "1", ".", "*", "\n", "!", "_", " "}

\* the texts of at most MaxText characters
Texts == UNION {[1..n -> TextChars] : n \in 0..MaxText}

InitClean ==
    /\ entry = "clean_text"
    /\ pc = "clean_text"
    /\ exc = ""
    /\ exc_in = ""
    /\ result = <<>>
    /\ retrieved_docs = <<>>
    /\ chunk_size = DefaultChunkSize
    /\ ScorerIdle
    /\ input_query \in Texts \cup {NoneInput}
    /\ resp = ""
    /\ query = <<>>
    /\ embedding_model = "unloaded"
    /\ data = <<>>
    /\ index_file = Missing
    /\ data_file = Missing
    /\ encoded_query = <<>>
    /\ fetched_url = <<>>
    /\ console_logs = <<>>
    /\ ApiIdle
    /\ StoreIdle
    /\ devops_db = Missing

\* clean_text(input_query), its result kept in query: '' for None
clean_text_call ==
    /\ pc = "clean_text"
    /\ query' = IF input_query = NoneInput THEN <<>> ELSE clean_text(input_query)
    /\ pc' = "returned"
    /\ UNCHANGED <<entry, exc, exc_in, result, scorerVars, input_query, resp, embedding_model,
                   data, index_file, data_file, encoded_query, fetched_url, console_logs, apiVars, devops_db>>
    /\ UNCHANGED storeVars

NextClean == clean_text_call

SpecClean == InitClean /\ [][NextClean]_vars

\* ----------------------------------- direct call of get_devops_knowledgebase
\* the largest number of rows of the devops_issues table
MaxKbRows == 4

\* the rows the table is made of
DbRowValues == {DbRow(i) : i \in 1..3}

\* states of data/devops_issues.db: missing, unreadable, or holding up to
\* MaxKbRows rows in any order, repeated rows included
KbDbStates ==
    {Missing, Unreadable}
      \cup {Stored(rows) : rows \in UNION {[1..n -> DbRowValues] : n \in 0..MaxKbRows}}

InitKb ==
    /\ entry = "get_devops_knowledgebase"
    /\ pc = "get_devops_knowledgebase"
    /\ exc = ""
    /\ exc_in = ""
    /\ result = <<>>
    /\ retrieved_docs = <<>>
    /\ chunk_size = DefaultChunkSize
    /\ ScorerIdle
    /\ input_query = <<>>
    /\ resp = ""
    /\ query = <<>>
    /\ embedding_model = "unloaded"
    /\ data = <<>>
    /\ index_file = Missing
    /\ data_file = Missing
    /\ encoded_query = <<>>
    /\ fetched_url = <<>>
    /\ console_logs = <<>>
    /\ ApiIdle
    /\ StoreIdle
    /\ devops_db \in KbDbStates

NextKb == get_devops_knowledgebase

SpecKb == InitKb /\ [][NextKb]_vars

\* ================================================================== claims
\* every solution the scorer currently holds or has returned
HeldSolutions == Range(solutions) \cup Range(final_solutions) \cup Range(result)

\* the call of create_solution_entry that the body makes on the current line
BodyCall == Assignments(line, local_idx, confidence, reason, bound)

InBounds(g) == 0 <= g /\ g < Len(retrieved_docs)

\* ---- C1
\* C1: the admission threshold is exclusive.  No solution held by the scorer
\* has a confidence <= 0.6, every solution of a returned list has a
\* confidence > 0.6, and a call of create_solution_entry adds nothing when
\* the confidence is <= 0.6 (0.6 included) and adds exactly one solution with
\* that confidence when it is above 0.6 and the translated index is in bounds.
C1_NoneAtOrBelow ==
    /\ \A s \in HeldSolutions : ~FloatLE(s.confidence, Threshold)
    /\ pc = "returned" => \A s \in Range(result) : FloatGT(s.confidence, Threshold)

C1_AdmissionStep ==
    (pc = "line" /\ pc' = "parse" /\ BodyCall.kind = "call") =>
        /\ FloatLE(BodyCall.conf, Threshold) => solutions' = solutions
        /\ (FloatGT(BodyCall.conf, Threshold) /\ InBounds(chunk_start + BodyCall.idx)) =>
              /\ Len(solutions') = Len(solutions) + 1
              /\ solutions'[Len(solutions')].confidence = BodyCall.conf

\* C1: no solution at or below 0.6 is ever held or returned, and each call of
\* create_solution_entry rejects at or below 0.6 and admits above it.
C1_ThresholdExclusive == [](C1_NoneAtOrBelow) /\ [][C1_AdmissionStep]_vars

\* a returned list holds a solution admitted at 0.61 while a line was rejected
C1_Witness ==
    /\ pc = "returned"
    /\ \E s \in Range(result) : s.confidence = 61
    /\ lines_read > Len(result)
    /\ llm_failed = 0

\* ---- C2
\* C2: parse_llm_response never raises: no exception leaves it, whatever the
\* lines of the response are.
C2_ParseNeverRaises == ~(pc = "raised" /\ exc_in = "parse_llm_response")

\* ---- C3
\* a line the parser is meant to drop: blank, first field no digit string,
\* second field missing or no number, or pipe-delimited with under 3 fields
MalformedLine(l) ==
    \/ l.parts = <<>>
    \/ ~isdigit(l.parts[1]) \/ IntRaises(l.parts[1])
    \/ Len(l.parts) < 2
    \/ FloatRaises(l.parts[2])
    \/ (l.pipe /\ Len(l.parts) < 3)

\* solution e carries the index, confidence and reason written on line l
TakenFrom(e, l) ==
    /\ e.global_index = chunk_start + int(l.parts[1])
    /\ e.confidence = float(l.parts[2])
    /\ e.reason = IF Len(l.parts) > 2 THEN l.parts[3] ELSE "Selected by LLM"

\* C3: a malformed line contributes no solution, whatever lines precede it,
\* and every solution added takes its index, confidence and reason from the
\* one well-formed line being parsed.
C3_MalformedStep ==
    pc = "line" =>
        /\ MalformedLine(line) => solutions' = solutions
        /\ solutions' # solutions =>
              /\ ~MalformedLine(line)
              /\ Len(solutions') = Len(solutions) + 1
              /\ SubSeq(solutions', 1, Len(solutions)) = solutions
              /\ TakenFrom(solutions'[Len(solutions')], line)

C3_MalformedAddsNothing == [][C3_MalformedStep]_vars

\* ---- C4
\* the solution the fallback line selects in the current chunk
FallbackEntry ==
    Entry(retrieved_docs[chunk_start + 1], FallbackConfidence, FallbackReason, chunk_start)

\* C4: when the LLM call raises for a chunk the scorer goes on: the chunk is
\* parsed from the fallback line, contributes exactly one solution (the
\* chunk's first candidate, confidence 0.8, fallback reason), and the loop
\* moves to the next chunk; when every LLM call of a call on a non-empty
\* candidate list raised, the call returns one solution per chunk.
C4_FallbackStep ==
    /\ (pc = "chunk" /\ llm' = "failed") => pc' = "parse"
    /\ (llm = "failed" /\ pc = "line") => pc' = "parse"
    /\ (llm = "failed" /\ pc = "parse" /\ pc' # "line") =>
          /\ solutions = <<FallbackEntry>>
          /\ final_solutions' = final_solutions \o <<FallbackEntry>>
          /\ pc' \in {"chunk", "display"}
          /\ chunk_start' = chunk_start + chunk_size

C4_Unreachable ==
    (retrieved_docs # <<>> /\ llm_calls = llm_failed /\ pc \in {"returned", "raised", "display"}) =>
        /\ pc # "raised"
        /\ llm_calls > 0
        /\ Len(final_solutions) = llm_calls
        /\ pc = "returned" => (result # <<>> /\ Len(result) = llm_calls)

\* C4: an LLM failure is scored from the fallback line, one solution per
\* failed chunk, and never ends the call.
C4_FallbackOnLLMFailure == [](C4_Unreachable) /\ [][C4_FallbackStep]_vars

\* two chunks, the LLM raised for both, two fallback solutions returned
C4_Witness ==
    /\ pc = "returned"
    /\ llm_failed = 2
    /\ llm_calls = 2
    /\ Len(result) = 2
    /\ \A s \in Range(result) : s.reason = FallbackReason /\ s.confidence = FallbackConfidence

\* ---- C5
\* C5: main never raises for a string input.  Whatever stage fails, no
\* exception escapes main; main returns a list, and the list is empty when
\* an exception reached main's handler (a stage failed without a fallback).
C5_MainNeverRaises ==
    entry = "main" =>
        /\ pc # "escaped"
        /\ (pc = "returned" /\ exc # "") => result = <<>>

\* main returned [] after parse_llm_response raised
C5_Witness ==
    /\ entry = "main"
    /\ pc = "returned"
    /\ exc = "UnboundLocalError"
    /\ exc_in = "parse_llm_response"
    /\ result = <<>>

\* ---- C6
\* descending by confidence
Descending(q) == \A i, j \in 1..Len(q) : i < j => q[i].confidence >= q[j].confidence

\* the solutions of q that have confidence c, in q's order
WithConfidence(q, c) == SelectSeq(q, LAMBDA s : s.confidence = c)

C6_ReturnStep ==
    (pc = "display" /\ pc' = "returned") =>
        /\ Descending(result')
        /\ Len(result') = Len(final_solutions)
        /\ \A s \in Range(final_solutions) :
              WithConfidence(result', s.confidence) = WithConfidence(final_solutions, s.confidence)

FromCandidate(s) ==
    /\ InBounds(s.global_index)
    /\ LET doc == retrieved_docs[s.global_index + 1]
       IN  /\ s.Failure = doc[2]
           /\ s.RootCause = doc[3]
           /\ s.Solution = doc[4]

C7_Fields == \A s \in HeldSolutions : FromCandidate(s)

C7_IndexStep ==
    (pc = "line" /\ pc' = "parse") =>
        /\ solutions' # solutions =>
              /\ Len(solutions') = Len(solutions) + 1
              /\ solutions'[Len(solutions')].global_index = chunk_start + local_idx'
        /\ (BodyCall.kind = "call" /\ ~InBounds(chunk_start + BodyCall.idx)) =>
              solutions' = solutions

\* C7: every emitted solution has global_index = chunk_start + local_index,
\* inside the candidate list, and carries the Failure, Root Cause and
\* Solution of the candidate at that position; a line whose translated index
\* is outside the candidate list adds no solution.
C7_GlobalIndex == [](C7_Fields) /\ [][C7_IndexStep]_vars

\* in the second chunk one line was admitted at global index 1 and a later
\* line, above the threshold, was dropped for its index
C7_Witness ==
    /\ pc = "parse"
    /\ chunk_start = 1
    /\ Len(solutions) = 1
    /\ solutions[1].global_index = 1
    /\ bound = AllLocals
    /\ FloatGT(confidence, Threshold)
    /\ ~InBounds(chunk_start + local_idx)

\* ---- C8
\* C8: the solutions produced while a chunk is scored carry global indices
\* inside that chunk's range [chunk_start, chunk_end).
C8_InsideChunk ==
    pc \in {"parse", "line"} =>
        \A s \in Range(solutions) : chunk_start <= s.global_index /\ s.global_index < chunk_end

\* ---- C9
\* C9: every returned solution has a confidence in (0, 1].
C9_ConfidenceInUnitInterval ==
    pc = "returned" =>
        \A s \in Range(result) : FloatGT(s.confidence, 0) /\ FloatLE(s.confidence, 100)

\* ---- C10
\* C10: the text handed to the embedding model at query time is the
\* effective query normalized by clean_text, as the knowledge-base texts are
\* at index-build time.
C10_QueryNormalized ==
    \A i \in 1..Len(encoded_query) : encoded_query[i] = clean_text(query)


\* no vectorize_devops_data is part way through its writes
NoBuildInProgress == builder \in {"idle", "done", "failed"}

\* C11: a search over a persisted index and metadata list whose entry counts
\* differ returns no candidates.
C11_MismatchUnavailable ==
    [][(/\ query_faiss_index_search
        /\ NoBuildInProgress
        /\ index_file.state = "ok"
        /\ index = index_file.content
        /\ data_file.state = "ok"
        /\ Len(index) # Len(data_file.content))
       => retrieved_docs' = <<>>]_vars

\* either artifact is missing or unreadable
ArtifactUnavailable == index_file.state # "ok" \/ data_file.state # "ok"

\* the search over an unavailable artifact returns ([], []) and does not raise
C12_SearchStep ==
    (query_faiss_index /\ ArtifactUnavailable)
        => (retrieved_docs' = <<>> /\ pc' = "query_llm_model" /\ exc' = exc)

\* with an artifact unavailable main makes no LLM call and holds no solution
C12_NoScoring ==
    (entry = "main" /\ ArtifactUnavailable)
        => /\ llm_calls = 0
           /\ result = <<>>
           /\ final_solutions = <<>>
           /\ pc \notin {"chunk", "parse", "line", "display", "escaped"}

\* C12: with either artifact missing or unreadable query_faiss_index returns
\* ([], []) without raising, and main then returns [] with no LLM call.
C12_UnavailableGivesEmpty == [](C12_NoScoring) /\ [][C12_SearchStep]_vars

\* main has returned normally after a search found the metadata unreadable
C12_Witness ==
    /\ entry = "main"
    /\ pc = "returned"
    /\ exc = ""
    /\ index_file.state = "ok"
    /\ data_file.state = "unreadable"
    /\ Len(encoded_query) = 1
    /\ result = <<>>
    /\ llm_calls = 0

\* ---- C13
\* ceil(n / c)
Ceil(n, c) == (n + c - 1) \div c

\* a step that calls ollama.chat
ChatStep == ChatResponds \/ ChatRespondsNone \/ ChatRaises

\* the number of calls: none for an empty list, never more than one per
\* chunk, and one per chunk once the loop is over
C13_Calls ==
    entry = "query_llm_model" =>
        /\ retrieved_docs = <<>> => llm_calls = 0 /\ result = <<>> /\ pc \in {"query_llm_model", "returned"}
        /\ llm_calls <= Ceil(Len(retrieved_docs), chunk_size)
        /\ (retrieved_docs # <<>> /\ (pc \in {"display", "returned"}
                                        \/ (pc = "raised" /\ exc_in = "display_hackathon_results")))
               => llm_calls = Ceil(Len(retrieved_docs), chunk_size)

\* the k-th call is made for the k-th chunk
C13_CallStep ==
    ChatStep => /\ llm_calls' = llm_calls + 1
                /\ chunk_start = llm_calls * chunk_size

C14_Chunk ==
    pc \in {"chunk", "parse", "line"} =>
        /\ 0 <= chunk_start
        /\ chunk_start < chunk_end
        /\ chunk_end <= Len(cleaned_retrieved_docs)
        /\ chunk_end - chunk_start <= chunk_size
        /\ Len(chunk) = chunk_end - chunk_start
        /\ \A i \in 1..Len(chunk) : chunk[i] = cleaned_retrieved_docs[chunk_start + i]

\* the first chunk starts at 0, each next chunk starts where the one before
\* ended, and the loop ends with the chunk that ends the list
C14_NextStep ==
    /\ (pc = "query_llm_model" /\ pc' = "chunk") => chunk_start' = 0
    /\ (pc \in {"chunk", "parse"} /\ pc' = "chunk") => chunk_start' = chunk_end
    /\ (pc \in {"chunk", "parse"} /\ pc' = "display") => chunk_end = Len(cleaned_retrieved_docs)

\* C14: the chunks keep candidate order and their ranges, translated by
\* chunk_start, split {0, ..., N-1} with no gap and no overlap.
C14_Partition == [](C14_Chunk) /\ [][C14_NextStep]_vars

\* the last chunk of a list that the chunk size does not divide
C14_Witness ==
    /\ pc = "chunk"
    /\ chunk_size = 2
    /\ chunk_start = 0
    /\ Len(retrieved_docs) = 1
    /\ Len(chunk) = 1
    /\ chunk_start + chunk_size > chunk_end

\* ---- C15
\* the number a digit-string field stands for
IdxOf(w) == int(FieldName(w.idx))

\* C15: a line of three fields (a digit string, a number above the
\* threshold, a reason) separated by '|' or by whitespace adds exactly one
\* solution with that index, confidence and reason when the translated index
\* is in bounds.
C15_BothFormats ==
    [][\A w \in ThreeFieldLines :
          (/\ parse_llm_response_body
           /\ line = LineOf(LineText(w))
           /\ InBounds(chunk_start + IdxOf(w)))
          => solutions' = Append(solutions,
                                 Entry(retrieved_docs[chunk_start + IdxOf(w) + 1],
                                       float(FieldName(w.conf)), FieldName(w.rsn),
                                       chunk_start + IdxOf(w)))]_vars

\* ---- C16
\* a vectorize_devops_data that returns leaves one vector per entry of its
\* data, in entry order, next to that data
C16_BuildStep ==
    (vectorize_dump /\ builder' = "done") =>
        /\ index_file'.state = "ok"
        /\ data_file' = Stored(builder_data)
        /\ Len(index_file'.content) = Len(builder_data)
        /\ \A i \in 1..Len(builder_data) :
               index_file'.content[i] = Encode(DocText(builder_data[i]))

\* the index and the metadata are those of one build
SameBuild(idx, metadata) ==
    metadata.state = "ok" /\ idx = EncodeBatches(IndexTexts(metadata.content))

\* a search returns at most k entries of the metadata it loaded, and
\* min(k, n) of them from a build of n entries
C16_SearchStep ==
    query_faiss_index_search =>
        /\ Len(retrieved_docs') <= K
        /\ \A j \in 1..Len(retrieved_docs') :
               /\ data_file.state = "ok"
               /\ \E p \in 1..Len(data_file.content) : retrieved_docs'[j] = data_file.content[p]
        /\ SameBuild(index, data_file) =>
               Len(retrieved_docs') = (IF Len(index) < K THEN Len(index) ELSE K)

\* C16: a successful vectorize_devops_data persists one vector per entry in
\* entry order, also across encoding batches; query_faiss_index returns at
\* most k = 5 entries of the persisted metadata, skipping position -1, and
\* fewer from a knowledge base of fewer than 5 entries.
C16_AlignedIndex == [][C16_BuildStep]_vars /\ [][C16_SearchStep]_vars

\* a search over a finished build of more entries than one batch holds
C16_Witness ==
    /\ pc = "returned"
    /\ builder = "done"
    /\ Len(index_file.content) = BatchSize + 1
    /\ SameBuild(index_file.content, data_file)
    /\ Len(retrieved_docs) = K

\* ---- C17
\* a search that runs beside a build reads a completely written index
C17_ReadStep ==
    (query_faiss_index_read /\ builder # "failed") => index_file.state # "unreadable"

\* and maps the positions of the index it read through the metadata of the
\* same build
C17_SearchStep ==
    (query_faiss_index_search /\ builder # "failed" /\ data_file.state = "ok")
        => SameBuild(index, data_file)

\* C17: while no build fails, a search interleaved with a build never reads
\* a partly written index file, nor an index and a metadata file of two
\* different builds.
C17_NoRace == [][C17_ReadStep]_vars /\ [][C17_SearchStep]_vars

\* ---- C18
\* C18: the scorer's call, and main with it, eventually ends, whatever the
\* LLM server does.
C18_CallEnds == <>(pc \in {"returned", "raised"})

\* ---- C19
\* the marker the spec gives an outcome of requests.get
ExpectedMarker(http) ==
    CASE http.kind = "timeout" -> "timeout"
      [] http.kind = "connection" -> "connection"
      [] http.code = 401 -> "unauthorized"
      [] http.code = 200 -> "response"
      [] OTHER -> StatusMarker(http.code)

\* the markers of the failed fetches
ErrorMarkers == {"unauthorized", "timeout", "connection", StatusMarker(500)}

\* C19: once a URL is detected get_actual_devops_data does not raise and
\* returns a marker with a non-empty text, which is the effective query:
\* 'unauthorized' for 401, 'status_<code>' for another non-200 status,
\* 'timeout' for a timeout, 'connection' for any other request failure.
C19_FetchNeverRaises ==
    [][(get_actual_devops_data /\ DetectUrl(input_query).is_pipeline_query)
          => /\ pc' # "raised"
             /\ exc' = ""
             /\ query' # <<>>
             /\ \E http \in HttpOutcomes :
                    /\ resp' = ExpectedMarker(http)
                    /\ query' = FetchResult(DetectUrl(input_query).extracted_url, http).query
                    /\ (http.kind = "status" /\ http.code \notin {200, 401})
                           => resp' = StatusMarker(http.code)]_vars

\* a fetch that ended in a connection failure has returned its marker
C19_Witness ==
    /\ entry = "get_actual_devops_data"
    /\ pc = "returned"
    /\ resp = "connection"
    /\ query # <<>>
    /\ Len(fetched_url) = 1

\* ---- C20
\* C20: without a detected pipeline URL get_actual_devops_data returns the
\* direct-query marker with the input unchanged and requests nothing; the
\* marker is the direct-query one exactly when no URL was detected.
C20_DirectQuery ==
    [][get_actual_devops_data
          => /\ ~DetectUrl(input_query).is_pipeline_query
                    => /\ resp' = "user input"
                       /\ query' = input_query
                       /\ fetched_url' = fetched_url
                       /\ pc' # "raised"
             /\ pc' # "raised"
                    => (resp' = "user input" <=> ~DetectUrl(input_query).is_pipeline_query)]_vars

\* a direct query holding a URL that is not a pipeline URL has been returned
C20_Witness ==
    /\ entry = "get_actual_devops_data"
    /\ pc = "returned"
    /\ resp = "user input"
    /\ query = input_query
    /\ fetched_url = <<>>
    /\ \E i \in 1..Len(input_query) : GenericAt(input_query, i)

\* ---- C21
\* the line holds one of the error keywords, in any case
HasErrorKeyword(l) == \E kw \in error_keywords : Contains(LowerText(l), kw)

\* the positions of the lines of ls that hold an error keyword, ascending
MatchingPositions(ls) == SelectSeq([i \in 1..Len(ls) |-> i], LAMBDA i : HasErrorKeyword(ls[i]))

NoErrorLogsFound ==
    <<"N", "o", " ", "s", "p", "e", "c", "i", "f", "i", "c", " ", "e", "r", "r", "o", "r", " ",
      "l", "o", "g", "s", " ", "f", "o", "u", "n", "d", " ", "i", "n", " ", "p", "i", "p",
      "e", "l", "i", "n", "e", " ", "c", "o", "n", "s", "o", "l", "e", " ", "o", "u", "t",
      "p", "u", "t", " ", "f", "r", "o", "m", " ">>

\* C21: after a 200 fetch the lines of the effective query are the log's
\* lines that hold an error keyword (each trimmed of surrounding blanks), in
\* the log's order, all of them when at most 100 match and the last 100
\* otherwise; when none matches the query is the 'no error logs found'
\* placeholder, and nothing is raised.
C21_LastMatchingLines ==
    (entry = "get_actual_devops_data" /\ pc \in {"returned", "raised"} /\ input_query \in LogInputs)
        => LET ls == SplitLines(console_logs)
               at == MatchingPositions(ls)
               qs == SplitLines(query)
               n  == Len(at)
           IN  /\ pc = "returned"
               /\ exc = ""
               /\ resp = "response"
               /\ IF n = 0
                  THEN query = NoErrorLogsFound \o DetectUrl(input_query).extracted_url
                  ELSE /\ Len(qs) = IF n > 100 THEN 100 ELSE n
                       /\ \A j \in 1..Len(qs) :
                              /\ qs[j] = Strip(ls[at[n - Len(qs) + j]])
                              /\ HasErrorKeyword(qs[j])

\* a log with more than 100 matching lines, and some that do not match, has
\* been cut down to its last 100 matching lines
C21_Witness ==
    /\ entry = "get_actual_devops_data"
    /\ pc = "returned"
    /\ resp = "response"
    /\ Len(SplitLines(query)) = 100
    /\ Len(MatchingPositions(SplitLines(console_logs))) > 100
    /\ Len(SplitLines(console_logs)) > Len(MatchingPositions(SplitLines(console_logs)))

\* ---- C22
\* the ASCII punctuation characters, the quotes and the backslash left out
Punctuation ==
    {"!", "#", "$", "%", "&", "(", ")", "*", "+", ",", "-", ".", "/", ":", ";", "<", "=",
     ">", "?", "@", "[", "]", "^", "_", "{", "|", "}", "~"}

\* C22: clean_text is total and idempotent, maps None to the empty string,
\* and its output holds no asterisk, no newline and no punctuation character.
C22_CleanIdempotentNoPunctuation ==
    (entry = "clean_text" /\ pc # "clean_text")
        => /\ pc = "returned"
           /\ exc = ""
           /\ input_query = NoneInput => query = <<>>
           /\ clean_text(query) = query
           /\ \A i \in 1..Len(query) :
                  query[i] # "*" /\ query[i] # "\n" /\ query[i] \notin Punctuation

\* ---- C23
\* sub is an order-preserving selection of the elements of full
IsSelection(sub, full) ==
    \E f \in [1..Len(sub) -> 1..Len(full)] :
        /\ \A i \in 1..Len(sub) : sub[i] = full[f[i]]
        /\ \A i, j \in 1..Len(sub) : i < j => f[i] < f[j]

\* C23: the solutions of a POST /devops/analyze response are an
\* order-preserving selection of the solutions main returned, each with a
\* confidence above 0.6, at most max_solutions of them, and total_solutions
\* is their number, for either value of include_confidence.
C23_ApiOnlyNarrows ==
    pc = "responded"
        => /\ IsSelection(solution_models, [i \in 1..Len(result) |-> DevOpsSolution(result[i])])
           /\ \A i \in 1..Len(solution_models) : FloatGT(solution_models[i].confidence, 60)
           /\ Len(solution_models) <= max_solutions
           /\ total_solutions = Len(solution_models)

\* a request without the confidence filter was answered with the first of
\* the two solutions the engine returned
C23_Witness ==
    /\ pc = "responded"
    /\ ~include_confidence
    /\ max_solutions = 1
    /\ Len(result) = 2
    /\ solution_models = <<DevOpsSolution(result[1])>>
    /\ total_solutions = 1

\* ---- C24
SlashConsoleText == <<"/">> \o ConsoleText

\* the URL handed to requests.get by the step
C24_Fetched == fetched_url'[Len(fetched_url')]

\* C24: the URL fetched for a detected URL ends with exactly one
\* '/consoleText' segment; a detected URL that already ends with
\* '/consoleText', with or without a trailing slash, is not made longer; and
\* normalizing the fetched URL again leaves it unchanged.
C24_ConsoleSuffixOnce ==
    [][(get_actual_devops_data /\ DetectUrl(input_query).is_pipeline_query)
          => LET url == DetectUrl(input_query).extracted_url
             IN  /\ Len(fetched_url') = Len(fetched_url) + 1
                 /\ EndsWith(C24_Fetched, SlashConsoleText)
                 /\ ~EndsWith(C24_Fetched, SlashConsoleText \o SlashConsoleText)
                 /\ (EndsWith(url, SlashConsoleText) \/ EndsWith(url, SlashConsoleText \o <<"/">>))
                        => Len(C24_Fetched) <= Len(url)
                 /\ ConsoleUrl(C24_Fetched) = C24_Fetched]_vars

\* ---- C25
\* C25: get_devops_knowledgebase returns a non-empty list of
\* (id, failure, root_cause, solution) tuples whose ids are 0, 1, ..., n-1 in
\* order: the rows of the database, in order, when it can be read and holds
\* at least one row, and the 8 built-in entries when it is missing, cannot
\* be read or is empty.
C25_KnowledgeBaseIds ==
    (entry = "get_devops_knowledgebase" /\ pc # "get_devops_knowledgebase")
        => /\ pc = "returned"
           /\ exc = ""
           /\ data # <<>>
           /\ \A i \in 1..Len(data) : Len(data[i]) = 4 /\ data[i][1] = i - 1
           /\ IF devops_db.state = "ok" /\ Len(devops_db.content) >= 1
              THEN /\ Len(data) = Len(devops_db.content)
                   /\ \A i \in 1..Len(data) :
                          /\ data[i][2] = devops_db.content[i].failure
                          /\ data[i][3] = devops_db.content[i].root_cause
                          /\ data[i][4] = devops_db.content[i].solution
              ELSE /\ Len(data) = 8
                   /\ \A i \in 1..8 :
                          /\ data[i][2] = create_devops_knowledge_base[i].failure
                          /\ data[i][3] = create_devops_knowledge_base[i].root_cause
                          /\ data[i][4] = create_devops_knowledge_base[i].solution

\* the rows of a database holding the same row twice have been returned
\* with the ids 0, 1, 2
C25_Witness ==
    /\ entry = "get_devops_knowledgebase"
    /\ pc = "returned"
    /\ devops_db.state = "ok"
    /\ Len(data) = 3
    /\ data[1][2] = data[3][2]
    /\ data[1][2] # data[2][2]
    /\ data[3][1] = 2

====
